---- MODULE Spec2Model ----
(***************************************************************************)
(* A model of vexflowMouseEvents (eventtools): the resolution of a click   *)
(* over a rendered score into measure, staff, note-event and pitch.        *)
(*                                                                         *)
(* Conventions                                                             *)
(*  - a JavaScript value that may be undefined is a sequence of length at  *)
(*    most one: None is undefined, Some(v) is v;                           *)
(*  - JavaScript indices are kept 0-based: At(list, i) is list[i];         *)
(*  - coordinates and tick counts are integers;                            *)
(*  - getDistance returns Math.sqrt(dx^2 + dy^2); the model keeps the      *)
(*    square dx^2 + dy^2 (sqrt is strictly increasing on the non-negative  *)
(*    numbers and sqrt(0) = 0, so every comparison the code makes, `<= 0`  *)
(*    and `<`, has the same outcome on the squares).                       *)
(***************************************************************************)
EXTENDS Integers, Sequences, FiniteSets, TLC

VARIABLES
    \* getClosest, one loop iteration per step
    iterable, i, closest, distance, evaluated, returned,
    \* the arguments of the call under way, and the value it returned
    args, result,
    \* the operation under way and its position
    pc,
    \* the module's tables NOTE_MAPPING and KEY_SIGNATURE_MAP, built when the
    \* module is loaded, and the calls of getScoreMouseEvent that have returned
    tables, calls

gcVars == <<iterable, i, closest, distance, evaluated, returned>>
callVars == <<args, result>>
heapVars == <<tables, calls>>
vars == <<iterable, i, closest, distance, evaluated, returned, args, result, pc,
          tables, calls>>

----------------------------------------------------------------------------
(* Optional values and 0-based lists *)

None == <<>>
Some(v) == <<v>>
IsSome(o) == Len(o) = 1
Val(o) == o[1]
At(list, idx) == list[idx + 1]

Max(a, b) == IF a >= b THEN a ELSE b
Min(a, b) == IF a <= b THEN a ELSE b
Abs(a) == IF a < 0 THEN -a ELSE a

\* all the sequences over S of length at most n
SeqsUpTo(S, n) == UNION {[1..k -> S] : k \in 0..n}

----------------------------------------------------------------------------
(* getClosest: the nearest candidate with its index *)

\* the loop's locals before the first iteration
getClosestStart == [closest |-> None, distance |-> None, returned |-> FALSE]

\* the loop body without the early return of a candidate at distance <= 0
getClosestIterNoEarlyReturn(st, idx, thisItem, thisDistance) ==
    IF ~IsSome(thisDistance) THEN st
    ELSE IF ~IsSome(st.distance) \/ Val(thisDistance) < Val(st.distance)
         THEN [closest |-> Some([idx |-> idx, item |-> thisItem]),
               distance |-> thisDistance, returned |-> FALSE]
         ELSE st

\* the loop body with `<=` for `<`: the last of equal minima wins
getClosestIterLastTie(st, idx, thisItem, thisDistance) ==
    IF ~IsSome(thisDistance) THEN st
    ELSE IF Val(thisDistance) <= 0
         THEN [closest |-> Some([idx |-> idx, item |-> thisItem]),
               distance |-> st.distance, returned |-> TRUE]
         ELSE IF ~IsSome(st.distance) \/ Val(thisDistance) <= Val(st.distance)
              THEN [closest |-> Some([idx |-> idx, item |-> thisItem]),
                    distance |-> thisDistance, returned |-> FALSE]
              ELSE st

\* one iteration of the loop on candidate idx, whose distance closestFunct
\* gave as thisDistance; returned is set when the body executes `return`
getClosestIter(st, idx, thisItem, thisDistance) ==
    IF ~IsSome(thisDistance) THEN st
    ELSE IF Val(thisDistance) <= 0
         THEN [closest |-> Some([idx |-> idx, item |-> thisItem]),
               distance |-> st.distance, returned |-> TRUE]
         ELSE IF ~IsSome(st.distance) \/ Val(thisDistance) < Val(st.distance)
              THEN [closest |-> Some([idx |-> idx, item |-> thisItem]),
                    distance |-> thisDistance, returned |-> FALSE]
              ELSE st

RECURSIVE getClosestLoop(_, _, _, _)
getClosestLoop(list, dists, idx, st) ==
    IF idx >= Len(list) \/ st.returned THEN st.closest
    ELSE getClosestLoop(list, dists, idx + 1,
                        getClosestIter(st, idx, At(list, idx), At(dists, idx)))

\* getClosest(iterable, closestFunct), with dists[k] = closestFunct(iterable[k])
getClosest(list, dists) == getClosestLoop(list, dists, 0, getClosestStart)

----------------------------------------------------------------------------
(* Strings.  A JavaScript string the code takes apart is a sequence of     *)
(* one-character strings; Str("Bb") is written <<"B", "b">>.               *)

Whitespace == {" "}
Digits == {"0", "1", "2", "3", "4", "5", "6", "7", "8", "9"}
DigitValue(c) ==
    CASE c = "0" -> 0 [] c = "1" -> 1 [] c = "2" -> 2 [] c = "3" -> 3
      [] c = "4" -> 4 [] c = "5" -> 5 [] c = "6" -> 6 [] c = "7" -> 7
      [] c = "8" -> 8 [] c = "9" -> 9

\* String.prototype.toUpperCase on one character
toUpperCase(c) ==
    CASE c = "a" -> "A" [] c = "b" -> "B" [] c = "c" -> "C" [] c = "d" -> "D"
      [] c = "e" -> "E" [] c = "f" -> "F" [] c = "g" -> "G" [] c = "m" -> "M"
      [] c = "n" -> "N" [] c = "x" -> "X" [] OTHER -> c

RECURSIVE trimStart(_)
trimStart(str) ==
    IF str # <<>> /\ Head(str) \in Whitespace THEN trimStart(Tail(str)) ELSE str
RECURSIVE trimEnd(_)
trimEnd(str) ==
    IF str # <<>> /\ str[Len(str)] \in Whitespace
    THEN trimEnd(SubSeq(str, 1, Len(str) - 1)) ELSE str
\* String.prototype.trim
trim(str) == trimEnd(trimStart(str))

\* String.prototype.split on a one-character separator
RECURSIVE split(_, _)
split(str, sep) ==
    IF \A k \in 1..Len(str) : str[k] # sep THEN <<str>>
    ELSE LET k == CHOOSE j \in 1..Len(str) :
                      str[j] = sep /\ \A l \in 1..(j - 1) : str[l] # sep
         IN  <<SubSeq(str, 1, k - 1)>> \o split(SubSeq(str, k + 1, Len(str)), sep)

\* the longest prefix of decimal digits, as a number
RECURSIVE digitsPrefix(_, _)
digitsPrefix(str, acc) ==
    IF str # <<>> /\ Head(str) \in Digits
    THEN digitsPrefix(Tail(str), 10 * acc + DigitValue(Head(str)))
    ELSE acc
\* parseInt(str, 10): leading white space and one sign are skipped, then the
\* longest prefix of digits is read; None is NaN (no digit there)
parseInt(str) ==
    LET t == trimStart(str)
        negative == t # <<>> /\ Head(t) = "-"
        u == IF t # <<>> /\ Head(t) \in {"-", "+"} THEN Tail(t) ELSE t
    IN  IF u = <<>> \/ Head(u) \notin Digits THEN None
        ELSE Some(IF negative THEN -digitsPrefix(u, 0) ELSE digitsPrefix(u, 0))

----------------------------------------------------------------------------
(* Notes, accidentals and the two lookup tables *)

Accidentals == {"bb", "b", "n", "#", "##"}
NoteLetters == {"A", "B", "C", "D", "E", "F", "G"}

\* the characters of an accidental
AccidentalChars(accidental) ==
    CASE accidental = "bb" -> <<"b", "b">>
      [] accidental = "b" -> <<"b">>
      [] accidental = "n" -> <<"n">>
      [] accidental = "#" -> <<"#">>
      [] accidental = "##" -> <<"#", "#">>

\* an optional value as JavaScript's `if (v)` reads it: undefined and the
\* empty string are false
Truthy(o) == IsSome(o) /\ Val(o) # ""

\* the value of obj[key], undefined when obj has no such key
Lookup(obj, key) == IF key \in DOMAIN obj THEN Some(obj[key]) ELSE None
EmptyObject == [k \in {} |-> None]

getAccidentalOffset(accidental) ==
    IF ~Truthy(accidental) THEN 0
    ELSE CASE Val(accidental) = "bb" -> -2
           [] Val(accidental) = "b" -> -1
           [] Val(accidental) = "#" -> 1
           [] Val(accidental) = "##" -> 2
           [] Val(accidental) = "n" -> 0
           [] OTHER -> 0

\* VF.Flow.keyProperties.note_values without the rest and code entries: for
\* each letter its index above C, and for each accidental its int_val
NoteLetterAt == <<"C", "D", "E", "F", "G", "A", "B">>
NaturalSemitone == <<0, 2, 4, 5, 7, 9, 11>>
NoteValueAccidentals == <<None, Some("n"), Some("#"), Some("##"), Some("b"), Some("bb")>>

\* the entry getNoteMap stores for a letter index and an accidental of
\* note_values (none for the bare letter)
NoteEntryOf(noteLetterIdx, accidental) ==
    [semitoneVal |-> (At(NaturalSemitone, noteLetterIdx)
                      + getAccidentalOffset(accidental) + 12) % 12,
     noteName |-> [accidental |-> IF Truthy(accidental) THEN Val(accidental) ELSE "n",
                   noteLetter |-> At(NoteLetterAt, noteLetterIdx)],
     noteLetterIdx |-> noteLetterIdx]

\* getNoteMap(): per letter index the letter and, per accidental offset, the
\* entry written last for it
getNoteMap ==
    [noteLetterIdx \in 0..6 |->
        [noteLetter |-> At(NoteLetterAt, noteLetterIdx),
         byOffset |-> [accidentalOffset \in -2..2 |->
            LET last == CHOOSE k \in 1..Len(NoteValueAccidentals) :
                    /\ getAccidentalOffset(NoteValueAccidentals[k]) = accidentalOffset
                    /\ \A l \in (k + 1)..Len(NoteValueAccidentals) :
                          getAccidentalOffset(NoteValueAccidentals[l]) # accidentalOffset
            IN  NoteEntryOf(noteLetterIdx, NoteValueAccidentals[last])]]]

NOTE_MAPPING == getNoteMap

\* parseNote: the note of a string such as C#, none when it cannot be parsed
parseNote(noteStr) ==
    LET trimmed == trim(noteStr)
    IN  IF trimmed = <<>> THEN None
        ELSE LET noteLetter == toUpperCase(trimmed[1])
                 accidentalStr == SubSeq(trimmed, 2, Len(trimmed))
             IN  IF noteLetter \notin NoteLetters THEN None
                 ELSE IF accidentalStr = <<>>
                      THEN Some([accidental |-> None, noteLetter |-> noteLetter])
                 ELSE IF \E a \in Accidentals : AccidentalChars(a) = accidentalStr
                      THEN Some([accidental |->
                                    Some(CHOOSE a \in Accidentals :
                                            AccidentalChars(a) = accidentalStr),
                                 noteLetter |-> noteLetter])
                 ELSE None

formatNote(note) ==
    <<note.noteLetter>> \o (IF Truthy(note.accidental)
                            THEN AccidentalChars(Val(note.accidental)) ELSE <<>>)

KEY_SIGNATURE_ACCIDENTALS ==
    LET Fs == <<"F", "#">>  Cs == <<"C", "#">>  Gs == <<"G", "#">>
        Ds == <<"D", "#">>  As == <<"A", "#">>  Es == <<"E", "#">>
        Bs == <<"B", "#">>
        Bb == <<"B", "b">>  Eb == <<"E", "b">>  Ab == <<"A", "b">>
        Db == <<"D", "b">>  Gb == <<"G", "b">>  Cb == <<"C", "b">>
        Fb == <<"F", "b">>
    IN  << <<<<"C">>, <<>>>>,
           <<<<"G">>, <<Fs>>>>,
           <<<<"D">>, <<Fs, Cs>>>>,
           <<<<"A">>, <<Fs, Cs, Gs>>>>,
           <<<<"E">>, <<Fs, Cs, Gs, Ds>>>>,
           <<<<"B">>, <<Fs, Cs, Gs, Ds, As>>>>,
           <<Fs, <<Fs, Cs, Gs, Ds, As, Es>>>>,
           <<Cs, <<Fs, Cs, Gs, Ds, As, Es, Bs>>>>,
           <<<<"F">>, <<Bb>>>>,
           <<Bb, <<Bb, Eb>>>>,
           <<Eb, <<Bb, Eb, Ab>>>>,
           <<Ab, <<Bb, Eb, Ab, Db>>>>,
           <<Db, <<Bb, Eb, Ab, Db, Gb>>>>,
           <<Gb, <<Bb, Eb, Ab, Db, Gb, Cb>>>>,
           <<Cb, <<Bb, Eb, Ab, Db, Gb, Cb, Fb>>>> >>

\* _convertToMap: key signature name -> (note letter -> accidental)
convertToMap(keySigs) ==
    LET parsed == {e \in 1..Len(keySigs) : IsSome(parseNote(keySigs[e][1]))}
        withAccidental(e) ==
            {k \in 1..Len(keySigs[e][2]) :
                /\ IsSome(parseNote(keySigs[e][2][k]))
                /\ Truthy(Val(parseNote(keySigs[e][2][k])).accidental)}
        letterOf(e, k) == Val(parseNote(keySigs[e][2][k])).noteLetter
        accidentalMap(e) ==
            [l \in {letterOf(e, k) : k \in withAccidental(e)} |->
                LET last == CHOOSE k \in withAccidental(e) :
                        /\ letterOf(e, k) = l
                        /\ \A j \in withAccidental(e) : letterOf(e, j) = l => j <= k
                IN  Val(Val(parseNote(keySigs[e][2][last])).accidental)]
    IN  [name \in {formatNote(Val(parseNote(keySigs[e][1]))) : e \in parsed} |->
            LET last == CHOOSE e \in parsed :
                    /\ formatNote(Val(parseNote(keySigs[e][1]))) = name
                    /\ \A f \in parsed :
                          formatNote(Val(parseNote(keySigs[f][1]))) = name => f <= e
            IN  accidentalMap(last)]

KEY_SIGNATURE_MAP == convertToMap(KEY_SIGNATURE_ACCIDENTALS)

\* the two tables as the module holds them once it is loaded
ModuleTables == [NOTE_MAPPING |-> NOTE_MAPPING, KEY_SIGNATURE_MAP |-> KEY_SIGNATURE_MAP]

----------------------------------------------------------------------------
(* getNoteAndOctave: the pitch of a staff-line offset *)

\* a JavaScript number that may not be finite: Math.round of a division
Finite(n) == [kind |-> "finite", v |-> n]
NaN == [kind |-> "NaN", v |-> 0]
PlusInfinity == [kind |-> "+Infinity", v |-> 0]
MinusInfinity == [kind |-> "-Infinity", v |-> 0]

\* VF.Flow.clefProperties(clef).line_shift
clefLineShift(clef) ==
    CASE clef = "treble" -> 0
      [] clef = "bass" -> 6
      [] clef = "tenor" -> 4
      [] clef = "alto" -> 3
      [] clef = "soprano" -> 1
      [] clef = "percussion" -> 0
      [] clef = "mezzo-soprano" -> 2
      [] clef = "baritone-c" -> 5
      [] clef = "baritone-f" -> 5
      [] clef = "subbass" -> 7
      [] clef = "french" -> -1

\* the key of accidentalOverrides, noteLetter + octave: one letter followed
\* by the decimal digits of the octave, which determines both
OverrideKey(noteLetter, octave) == <<noteLetter, octave>>

\* the first loop with the octave left alone
whileNegativeKeepsOctave(st) ==
    [lineShiftOffset |-> st.lineShiftOffset % 7, octave |-> st.octave]

\* while (lineShiftOffset < 0) { lineShiftOffset += 7; octave -= 1; }
RECURSIVE whileNegative(_)
whileNegative(st) ==
    IF st.lineShiftOffset < 0
    THEN whileNegative([lineShiftOffset |-> st.lineShiftOffset + 7,
                        octave |-> st.octave - 1])
    ELSE st

\* while (lineShiftOffset >= 7) { lineShiftOffset -= 7; octave += 1; }
RECURSIVE whileSevenOrMore(_)
whileSevenOrMore(st) ==
    IF st.lineShiftOffset >= 7
    THEN whileSevenOrMore([lineShiftOffset |-> st.lineShiftOffset - 7,
                           octave |-> st.octave + 1])
    ELSE st

\* the two loops: the letter index and the octave of a raw offset
normaliseOffset(lineShiftOffset, octave) ==
    whileSevenOrMore(whileNegative([lineShiftOffset |-> lineShiftOffset,
                                    octave |-> octave]))

\* the accidental lookup with the override keyed by the letter alone
effectiveAccidentalAnyOctave(effectiveAccidentals, noteLetter, octave) ==
    LET ov == effectiveAccidentals.accidentalOverrides
        hit == {k \in DOMAIN ov : k[1] = noteLetter}
        accidental == IF hit # {} THEN Some(ov[CHOOSE k \in hit : TRUE]) ELSE None
    IN  IF Truthy(accidental) THEN accidental
        ELSE Lookup(effectiveAccidentals.keySig, noteLetter)

\* the accidental getNoteAndOctave applies: the override of this letter and
\* octave, else the key signature's accidental for the letter
effectiveAccidental(effectiveAccidentals, noteLetter, octave) ==
    LET accidental == Lookup(effectiveAccidentals.accidentalOverrides,
                             OverrideKey(noteLetter, octave))
    IN  IF Truthy(accidental) THEN accidental
        ELSE Lookup(effectiveAccidentals.keySig, noteLetter)

\* whether the call never returns: an infinite offset stays infinite under
\* += 7 and -= 7, so one of the two loops does not end
getNoteAndOctaveLoopsForever(centerLineOffset) ==
    centerLineOffset.kind \in {"+Infinity", "-Infinity"}

\* the value getNoteAndOctave returns when it returns; octaveShift is none
\* for an undefined argument, which the default 0 replaces
getNoteAndOctave(noteMap, clef, centerLineOffset, octaveShift, effectiveAccidentals) ==
    IF centerLineOffset.kind # "finite"
    THEN None    \* NaN: neither loop runs and noteMap[NaN] is undefined
    ELSE
    LET lineShiftOffset == centerLineOffset.v - clefLineShift(clef) * 2 - 1
        octave == 5 - (IF IsSome(octaveShift) THEN Val(octaveShift) ELSE 0)
        norm == normaliseOffset(lineShiftOffset, octave)
        noteLetterMap == Lookup(noteMap, norm.lineShiftOffset)
    IN  IF ~IsSome(noteLetterMap) THEN None
        ELSE LET noteLetter == Val(noteLetterMap).noteLetter
                 accidentalOffset ==
                     IF IsSome(effectiveAccidentals)
                     THEN getAccidentalOffset(
                              effectiveAccidental(Val(effectiveAccidentals),
                                                  noteLetter, norm.octave))
                     ELSE 0
             IN  Some([note |-> Val(noteLetterMap).byOffset[accidentalOffset],
                       octave |-> norm.octave])

----------------------------------------------------------------------------
(* VF.Flow.Fraction, as the code uses it *)

Fraction(n, d) == [numerator |-> n, denominator |-> d]

\* Fraction.GCD: Euclid's loop, with JavaScript's % (the sign of the dividend)
JsRem(a, b) == IF a >= 0 THEN a % Abs(b) ELSE -((-a) % Abs(b))
RECURSIVE GCD(_, _)
GCD(a, b) == IF b = 0 THEN a ELSE GCD(b, JsRem(a, b))
LCM(a, b) == (a * b) \div GCD(a, b)

\* a.add(n, d), a.subtract(b): over the least common multiple, not reduced
FractionAdd(a, n, d) ==
    LET lcm == LCM(a.denominator, d)
    IN  Fraction(a.numerator * (lcm \div a.denominator) + n * (lcm \div d), lcm)
FractionSubtract(a, b) ==
    LET lcm == LCM(a.denominator, b.denominator)
    IN  Fraction(a.numerator * (lcm \div a.denominator)
                 - b.numerator * (lcm \div b.denominator), lcm)
\* a.divide(n, d)
FractionDivide(a, n, d) == Fraction(a.numerator * d, a.denominator * n)
\* simplify() leaving the fraction as it is
FractionNotReduced(a) == a

\* a.simplify(): reduced, with a positive denominator
FractionSimplify(a) ==
    LET gcd == GCD(a.numerator, a.denominator)
        u == a.numerator \div gcd
        d == a.denominator \div gcd
    IN  IF d < 0 THEN Fraction(-u, -d) ELSE Fraction(u, d)

\* compareFractions with the operands exchanged
compareFractionsSwapped(a, b) ==
    Min(1, Max(-1, FractionSubtract(b, a).numerator))

compareFractions(a, b) ==
    Min(1, Max(-1, FractionSubtract(a, b).numerator))

----------------------------------------------------------------------------
(* The score as the rendering library hands it over.                       *)
(*   system  : [options : [x, y, width], lastY, parts]                     *)
(*   part    : [stave, voices]                                             *)
(*   stave   : [y, options : [num_lines, spacing_between_lines_px,         *)
(*              space_above_staff_ln], modifiers]                          *)
(*   voice   : [resolution, tickables]                                     *)
(*   tickable: [category, ticks, keys, modifiers, boundingBox, clef,       *)
(*              octave_shift]                                              *)
(*   modifier: [category, index, type, keySpec]                            *)

\* the CATEGORY constants of the rendering library
STAVENOTE_CATEGORY == "stavenotes"
ACCIDENTAL_CATEGORY == "accidentals"
KEYSIGNATURE_CATEGORY == "keysignatures"

\* array.flatMap(f) once f has been applied: the concatenation of the lists
RECURSIVE Flatten(_)
Flatten(lists) == IF lists = <<>> THEN <<>> ELSE Head(lists) \o Flatten(Tail(lists))

\* array.filter(keep), keep given as the set of the positions kept
RECURSIVE FilterAt(_, _, _)
FilterAt(list, keep, k) ==
    IF k > Len(list) THEN <<>>
    ELSE (IF k \in keep THEN <<list[k]>> ELSE <<>>) \o FilterAt(list, keep, k + 1)

\* getTickablesAndBeats: every tickable of the voice with the beat it starts at
RECURSIVE tickablesAndBeatsFrom(_, _, _)
tickablesAndBeatsFrom(tickables, resolution, totalTicks) ==
    IF tickables = <<>> THEN <<>>
    ELSE LET t == Head(tickables)
             adjusted == FractionDivide(t.ticks, resolution, 1)
         IN  <<[tickable |-> t, beat |-> totalTicks]>>
             \o tickablesAndBeatsFrom(
                    Tail(tickables), resolution,
                    FractionSimplify(FractionAdd(totalTicks, adjusted.numerator,
                                                 adjusted.denominator)))

getTickablesAndBeats(voice) ==
    tickablesAndBeatsFrom(voice.tickables, voice.resolution, Fraction(0, 1))

----------------------------------------------------------------------------
(* The accidental tracker *)

\* parseNoteAndOctave: the note and the octave of a key such as c#/4
parseNoteAndOctave(noteWithOctave) ==
    LET pieces == split(noteWithOctave, "/")
    IN  IF Len(pieces) # 2 THEN None
        ELSE LET note == parseNote(pieces[1])
                 octave == parseInt(pieces[2])
             IN  \* note && octave && !isNaN(octave): 0 and NaN are false
                 IF IsSome(note) /\ IsSome(octave) /\ Val(octave) # 0
                 THEN Some([note |-> Val(note), octave |-> Val(octave)])
                 ELSE None

\* the value undefined where the code expects a string
UndefinedString == <<"undefined">>

\* whether getKeySigAccidentals throws: parseNote calls noteStr.trim() on
\* the keySpec, a TypeError when the key signature has none
getKeySigAccidentalsThrows(keySig) == keySig.keySpec = UndefinedString

getKeySigAccidentals(keySig) ==
    LET keyNote == parseNote(keySig.keySpec)
    IN  IF IsSome(keyNote) THEN Lookup(KEY_SIGNATURE_MAP, formatNote(Val(keyNote)))
        ELSE None

\* the accidentals object of a stave note: modifier.index -> modifier.type
\* over its accidental modifiers, a later one replacing an earlier one
noteAccidentals(staveNote) ==
    LET mods == IF IsSome(staveNote.modifiers) THEN Val(staveNote.modifiers) ELSE <<>>
        acc == {k \in 1..Len(mods) : mods[k].category = ACCIDENTAL_CATEGORY}
    IN  [idx \in {mods[k].index : k \in acc} |->
            mods[CHOOSE k \in acc : /\ mods[k].index = idx
                                    /\ \A j \in acc : mods[j].index = idx => j <= k].type]

\* the first flatMap and the map: per key of each stave note the parsed
\* note, the accidental of the modifier filling in for a key without one
keyEntries(tickableAndBeat) ==
    LET tickable == tickableAndBeat.tickable
        accidentals == noteAccidentals(tickable)
    IN  IF tickable.category # STAVENOTE_CATEGORY THEN <<>>
        ELSE [idx \in 1..Len(tickable.keys) |->
                LET parsedNote == parseNoteAndOctave(tickable.keys[idx])
                    accidental == Lookup(accidentals, idx - 1)
                IN  [note |->
                        IF Truthy(accidental) /\ IsSome(parsedNote)
                           /\ ~Truthy(Val(parsedNote).note.accidental)
                        THEN Some([Val(parsedNote) EXCEPT !.note.accidental = accidental])
                        ELSE parsedNote,
                     beat |-> tickableAndBeat.beat]]

\* Array.prototype.sort by compareFractions on the beats: a stable sort
RECURSIVE insertByBeat(_, _)
insertByBeat(sorted, e) ==
    IF sorted = <<>> THEN <<e>>
    ELSE IF compareFractions(sorted[Len(sorted)].beat, e.beat) <= 0
         THEN Append(sorted, e)
         ELSE Append(insertByBeat(SubSeq(sorted, 1, Len(sorted) - 1), e),
                     sorted[Len(sorted)])
RECURSIVE sortByBeatFrom(_, _, _)
sortByBeatFrom(list, k, sorted) ==
    IF k > Len(list) THEN sorted
    ELSE sortByBeatFrom(list, k + 1, insertByBeat(sorted, list[k]))
sortByBeat(list) == sortByBeatFrom(list, 1, <<>>)

\* the forEach: accidentalMap[noteLetter + octave] = accidental, in order
RECURSIVE assignOverrides(_, _, _)
assignOverrides(list, k, accidentalMap) ==
    IF k > Len(list) THEN accidentalMap
    ELSE LET n == Val(list[k].note)
             key == OverrideKey(n.note.noteLetter, n.octave)
         IN  assignOverrides(list, k + 1,
                [x \in DOMAIN accidentalMap \cup {key} |->
                    IF x = key THEN Val(n.note.accidental) ELSE accidentalMap[x]])

\* the filter with the cutoff beat itself discarded
keptEntriesStrictlyBefore(entries, stopBeat) ==
    FilterAt(entries,
             {k \in 1..Len(entries) :
                 /\ IsSome(entries[k].note)
                 /\ Truthy(Val(entries[k].note).note.accidental)
                 /\ compareFractions(entries[k].beat, stopBeat) < 0}, 1)

\* the filter: entries with an accidental at a beat not after stopBeat
keptEntries(entries, stopBeat) ==
    FilterAt(entries,
             {k \in 1..Len(entries) :
                 /\ IsSome(entries[k].note)
                 /\ Truthy(Val(entries[k].note).note.accidental)
                 /\ compareFractions(entries[k].beat, stopBeat) <= 0}, 1)

getVoicesAccidentals(voices, stopBeat) ==
    LET timeline == Flatten([v \in 1..Len(voices) |-> getTickablesAndBeats(voices[v])])
        entries == Flatten([k \in 1..Len(timeline) |-> keyEntries(timeline[k])])
    IN  assignOverrides(sortByBeat(keptEntries(entries, stopBeat)), 1, EmptyObject)

\* the voices getAccidentals reads: parts.flatMap(p => p.voices), those of
\* every part of the measure
measureVoices(system) ==
    Flatten([p \in 1..Len(system.parts) |-> system.parts[p].voices])

\* the key signature search going forward from the target measure
RECURSIVE findKeySigForward(_, _, _)
findKeySigForward(systems, staveIdx, idx) ==
    IF idx >= Len(systems) THEN None
    ELSE LET staveParts == At(systems, idx).parts
             mods == IF Len(staveParts) > staveIdx /\ IsSome(At(staveParts, staveIdx).stave)
                     THEN Val(At(staveParts, staveIdx).stave).modifiers ELSE <<>>
             sigs == {k \in 1..Len(mods) : mods[k].category = KEYSIGNATURE_CATEGORY}
         IN  IF sigs # {}
             THEN getKeySigAccidentals(mods[CHOOSE k \in sigs : \A j \in sigs : k <= j])
             ELSE findKeySigForward(systems, staveIdx, idx + 1)

\* the loop of getAccidentals from idx down to 0: the accidentals of the
\* first key signature found on the stave at staveIdx
RECURSIVE findKeySig(_, _, _)
findKeySig(systems, staveIdx, idx) ==
    IF idx < 0 THEN None
    ELSE LET staveParts == At(systems, idx).parts
             mods == IF Len(staveParts) > staveIdx /\ IsSome(At(staveParts, staveIdx).stave)
                     THEN Val(At(staveParts, staveIdx).stave).modifiers ELSE <<>>
             sigs == {k \in 1..Len(mods) : mods[k].category = KEYSIGNATURE_CATEGORY}
         IN  IF sigs # {}
             THEN getKeySigAccidentals(mods[CHOOSE k \in sigs : \A j \in sigs : k <= j])
             ELSE findKeySig(systems, staveIdx, idx - 1)

\* whether the key signature the loop of getAccidentals finds, from idx down
\* to 0, makes getKeySigAccidentals throw
RECURSIVE findKeySigThrows(_, _, _)
findKeySigThrows(systems, staveIdx, idx) ==
    IF idx < 0 THEN FALSE
    ELSE LET staveParts == At(systems, idx).parts
             mods == IF Len(staveParts) > staveIdx /\ IsSome(At(staveParts, staveIdx).stave)
                     THEN Val(At(staveParts, staveIdx).stave).modifiers ELSE <<>>
             sigs == {k \in 1..Len(mods) : mods[k].category = KEYSIGNATURE_CATEGORY}
         IN  IF sigs # {}
             THEN getKeySigAccidentalsThrows(mods[CHOOSE k \in sigs : \A j \in sigs : k <= j])
             ELSE findKeySigThrows(systems, staveIdx, idx - 1)

\* whether getAccidentals ends with an exception and returns nothing
getAccidentalsThrows(systems, staveIdx, measureIdx) ==
    Len(systems) > measureIdx /\ findKeySigThrows(systems, staveIdx, measureIdx)

\* getAccidentals with the overrides collected from every measure
getAccidentalsAllMeasures(systems, staveIdx, measureIdx, measureBeat) ==
    LET keySigAccidentals ==
            IF Len(systems) > measureIdx
            THEN findKeySig(systems, staveIdx, measureIdx) ELSE None
    IN  [keySig |-> IF IsSome(keySigAccidentals) THEN Val(keySigAccidentals)
                    ELSE EmptyObject,
         accidentalOverrides |->
            getVoicesAccidentals(
                Flatten([m \in 1..Len(systems) |-> measureVoices(systems[m])]),
                measureBeat)]

getAccidentals(systems, staveIdx, measureIdx, measureBeat) ==
    LET inRange == Len(systems) > measureIdx
        keySigAccidentals ==
            IF inRange THEN findKeySig(systems, staveIdx, measureIdx) ELSE None
        voiceAccidentals ==
            IF inRange
            THEN Some(getVoicesAccidentals(
                          measureVoices(At(systems, measureIdx)), measureBeat))
            ELSE None
    IN  [keySig |-> IF IsSome(keySigAccidentals) THEN Val(keySigAccidentals)
                    ELSE EmptyObject,
         accidentalOverrides |-> IF IsSome(voiceAccidentals) THEN Val(voiceAccidentals)
                                 ELSE EmptyObject]

----------------------------------------------------------------------------
(* The specification of getAccidentals: one call on each score, stave      *)
(* index, measure index and beat                                           *)

MaxMeasures == 2
MaxParts == 2

\* the ticks of a quarter note and the resolution of a voice
QUARTER_TICKS == 4096
RESOLUTION == 16384

ClefModifier ==
    [category |-> "clefs", index |-> 0, type |-> "treble", keySpec |-> <<>>]
KeySignatureModifier(keySpec) ==
    [category |-> KEYSIGNATURE_CATEGORY, index |-> 0, type |-> "", keySpec |-> keySpec]
AccidentalModifier(index, type) ==
    [category |-> ACCIDENTAL_CATEGORY, index |-> index, type |-> type, keySpec |-> <<>>]

\* a five-line stave whose top line is at y, with its modifiers
StaveAt(y, spacing, modifiers) ==
    [y |-> y,
     options |-> [num_lines |-> Some(5), spacing_between_lines_px |-> spacing,
                  space_above_staff_ln |-> 4],
     modifiers |-> modifiers]

\* a stave note on the treble clef, not yet laid out
StaveNote(keys, ticks, modifiers) ==
    [category |-> STAVENOTE_CATEGORY, ticks |-> Fraction(ticks, 1), keys |-> keys,
     modifiers |-> Some(modifiers), boundingBox |-> None,
     clef |-> Some("treble"), octave_shift |-> None]

VoiceOf(tickables) == [resolution |-> RESOLUTION, tickables |-> tickables]

AccStaves ==
    {None,
     Some(StaveAt(40, Some(10), <<ClefModifier>>)),
     Some(StaveAt(40, Some(10), <<ClefModifier, KeySignatureModifier(<<"G">>)>>)),
     Some(StaveAt(40, Some(10), <<ClefModifier, KeySignatureModifier(<<"B", "b">>)>>))}

\* c#/5, and d/5 with a flat modifier
AccNoteCSharp5 == StaveNote(<<<<"c", "#", "/", "5">>>>, QUARTER_TICKS, <<>>)
AccNoteDFlat5 ==
    StaveNote(<<<<"d", "/", "5">>>>, QUARTER_TICKS, <<AccidentalModifier(0, "b")>>)
AccVoiceLists ==
    {<<>>, <<VoiceOf(<<AccNoteCSharp5>>)>>, <<VoiceOf(<<AccNoteCSharp5, AccNoteDFlat5>>)>>}

AccParts == [stave : AccStaves, voices : AccVoiceLists]
AccMeasures ==
    {[options |-> [x |-> Some(20), y |-> Some(0), width |-> Some(150)],
      lastY |-> Some(100), parts |-> ps] : ps \in SeqsUpTo(AccParts, MaxParts)}
AccBeats == {Fraction(0, 1), Fraction(1, 4)}

AccInit ==
    /\ args \in [systems : SeqsUpTo(AccMeasures, MaxMeasures),
                 staveIdx : 0..(MaxParts - 1),
                 measureIdx : 0..(MaxMeasures - 1),
                 measureBeat : AccBeats]
    /\ result = None
    /\ pc = "getAccidentals"
    /\ iterable = <<>> /\ i = 0 /\ closest = None /\ distance = None
    /\ evaluated = {} /\ returned = FALSE
    /\ tables = ModuleTables /\ calls = <<>>

CallGetAccidentals ==
    /\ pc = "getAccidentals"
    /\ ~getAccidentalsThrows(args.systems, args.staveIdx, args.measureIdx)
    /\ result' = Some(getAccidentals(args.systems, args.staveIdx, args.measureIdx,
                                     args.measureBeat))
    /\ pc' = "done"
    /\ UNCHANGED <<args, gcVars, heapVars>>

AccNext == CallGetAccidentals

SpecAcc == AccInit /\ [][AccNext]_vars

\* what a key string says: its letter, its accidental if any and its octave,
\* for the key strings <letter><accidental?>/<octave>
KeyLetter(key) == toUpperCase(key[1])
KeyOctave(key) == Val(parseInt(split(key, "/")[2]))
KeyAccidental(key) == Val(parseNote(split(key, "/")[1])).accidental
\* the (voice, tickable, key) positions of the keys of the stave notes
KeyPositions(voiceList) ==
    {p \in UNION {UNION {{<<v, n, k>> : k \in 1..Len(voiceList[v].tickables[n].keys)} :
                         n \in 1..Len(voiceList[v].tickables)} :
                  v \in 1..Len(voiceList)} :
        voiceList[p[1]].tickables[p[2]].category = STAVENOTE_CATEGORY}
KeyAt(voiceList, p) == voiceList[p[1]].tickables[p[2]].keys[p[3]]
\* the accidentals the key at a position carries: that of the key string,
\* else those of the accidental modifiers at the key's index
PositionAccidentals(voiceList, p) ==
    LET mods == Val(voiceList[p[1]].tickables[p[2]].modifiers)
    IN  IF IsSome(KeyAccidental(KeyAt(voiceList, p)))
        THEN {Val(KeyAccidental(KeyAt(voiceList, p)))}
        ELSE {mods[j].type : j \in {j \in 1..Len(mods) :
                                       /\ mods[j].category = ACCIDENTAL_CATEGORY
                                       /\ mods[j].index = p[3] - 1
                                       /\ mods[j].type # ""}}
\* the accidentals the stave notes of these voices carry, each with the
\* letter and the octave of its key
CarriedAccidentals(voiceList) ==
    UNION {{<<KeyLetter(KeyAt(voiceList, p)), KeyOctave(KeyAt(voiceList, p)), a>> :
              a \in PositionAccidentals(voiceList, p)} : p \in KeyPositions(voiceList)}

AccTargetInRange == args.measureIdx < Len(args.systems)
AccTarget == At(args.systems, args.measureIdx)
AccOverrides == Val(result).accidentalOverrides

\* C3: every override getAccidentals returns is the accidental of a note
\* in a voice of the staff at staveIdx of the target measure.
C3_OverridesOfOwnStaff ==
    (pc = "done" /\ AccTargetInRange /\ Len(AccTarget.parts) > args.staveIdx) =>
        \A key \in DOMAIN AccOverrides :
            <<key[1], key[2], AccOverrides[key]>>
                \in CarriedAccidentals(At(AccTarget.parts, args.staveIdx).voices)

\* C5: the overrides come from the notes of the target measure alone: they
\* are those of the score reduced to that measure, each is carried by a note
\* of that measure, and C5 or D5 resolved with them in a measure that carries
\* no accidental for that pitch takes the key signature's accidental, else
\* natural.
C5_OverridesOfTargetMeasure ==
    (pc = "done" /\ AccTargetInRange) =>
        /\ AccOverrides =
              getAccidentals(<<AccTarget>>, args.staveIdx, 0,
                             args.measureBeat).accidentalOverrides
        /\ \A key \in DOMAIN AccOverrides :
              <<key[1], key[2], AccOverrides[key]>>
                  \in CarriedAccidentals(measureVoices(AccTarget))
        /\ \A offset \in {1, 2} :
              LET pitch == Val(getNoteAndOctave(NOTE_MAPPING, "treble", Finite(offset),
                                                None, result))
                  letter == pitch.note.noteName.noteLetter
              IN  (\A c \in CarriedAccidentals(measureVoices(AccTarget)) :
                        <<c[1], c[2]>> # <<letter, pitch.octave>>) =>
                     pitch.note.noteName.accidental =
                        (IF letter \in DOMAIN Val(result).keySig
                         THEN Val(result).keySig[letter] ELSE "n")

\* the second measure queried, its staff in B flat from the first measure,
\* while the first measure holds c#/5 and the second no note: no override,
\* and C5 resolves to natural
C5_Witness ==
    /\ pc = "done"
    /\ Len(args.systems) = 2
    /\ args.measureIdx = 1
    /\ Len(AccTarget.parts) > args.staveIdx
    /\ CarriedAccidentals(measureVoices(args.systems[1])) # {}
    /\ CarriedAccidentals(measureVoices(AccTarget)) = {}
    /\ AccOverrides = EmptyObject
    /\ "B" \in DOMAIN Val(result).keySig

\* whether the staff at staveIdx of measure m carries a key signature
AccHasKeySig(m) ==
    /\ Len(At(args.systems, m).parts) > args.staveIdx
    /\ IsSome(At(At(args.systems, m).parts, args.staveIdx).stave)
    /\ \E k \in 1..Len(Val(At(At(args.systems, m).parts, args.staveIdx).stave).modifiers) :
          Val(At(At(args.systems, m).parts, args.staveIdx).stave).modifiers[k].category
             = KEYSIGNATURE_CATEGORY
AccKeySpec(m) ==
    LET mods == Val(At(At(args.systems, m).parts, args.staveIdx).stave).modifiers
    IN  mods[CHOOSE k \in 1..Len(mods) : mods[k].category = KEYSIGNATURE_CATEGORY].keySpec
\* the KeySignature table's rows for the key signatures of the scores
KeySignatureTable(keySpec) ==
    CASE keySpec = <<"G">> -> [l \in {"F"} |-> "#"]
      [] keySpec = <<"B", "b">> -> [l \in {"B", "E"} |-> "b"]
AccWithKeySig == {m \in 0..args.measureIdx : AccHasKeySig(m)}

\* C6: keySig is the table's expansion of the key signature of the staff at
\* staveIdx in the nearest measure at or before measureIdx that carries
\* one, and the empty map when there is none; later measures play no part.
C6_NearestKeySignature ==
    (pc = "done" /\ AccTargetInRange) =>
        Val(result).keySig =
            IF AccWithKeySig = {} THEN EmptyObject
            ELSE KeySignatureTable(
                     AccKeySpec(CHOOSE m \in AccWithKeySig :
                                   \A n \in AccWithKeySig : n <= m))

\* the second measure queried: its staff carries no key signature, the same
\* staff of the first measure is in G, and the other staff is not
C6_Witness ==
    /\ pc = "done"
    /\ Len(args.systems) = 2
    /\ args.measureIdx = 1
    /\ AccWithKeySig = {0}
    /\ AccKeySpec(0) = <<"G">>
    /\ Len(AccTarget.parts) > args.staveIdx
    /\ IsSome(At(AccTarget.parts, args.staveIdx).stave)
    /\ Val(result).keySig = [l \in {"F"} |-> "#"]

----------------------------------------------------------------------------
(* The specification of getVoicesAccidentals: one call on each list of     *)
(* voices and each cutoff beat                                             *)

MaxVoices == 2
MaxNotes == 3

EIGHTH_TICKS == 2048

GhostNote(ticks) ==
    [category |-> "ghostnotes", ticks |-> Fraction(ticks, 1), keys |-> <<>>,
     modifiers |-> Some(<<>>), boundingBox |-> None, clef |-> None,
     octave_shift |-> None]

\* the keys and modifiers of the stave notes: c/5; c#/5; c/5 with a flat;
\* c#/5 with a flat modifier; the chord c/5 c/4 with a natural on its second
\* key; c#/0
VoicesAccKeysAndModifiers ==
    {<<<<<<"c", "/", "5">>>>, <<>>>>,
     <<<<<<"c", "#", "/", "5">>>>, <<>>>>,
     <<<<<<"c", "/", "5">>>>, <<AccidentalModifier(0, "b")>>>>,
     <<<<<<"c", "#", "/", "5">>>>, <<AccidentalModifier(0, "b")>>>>,
     <<<<<<"c", "/", "5">>, <<"c", "/", "4">>>>, <<AccidentalModifier(1, "n")>>>>,
     <<<<<<"c", "#", "/", "0">>>>, <<>>>>}
VoicesAccTickables ==
    {GhostNote(QUARTER_TICKS)}
    \cup {StaveNote(km[1], ticks, km[2]) :
            km \in VoicesAccKeysAndModifiers, ticks \in {EIGHTH_TICKS, QUARTER_TICKS}}

\* the lists of v voices holding n tickables or fewer between them
RECURSIVE VoiceListsOf(_, _, _)
VoiceListsOf(tickables, v, n) ==
    IF v = 0 THEN {<<>>}
    ELSE UNION {{<<VoiceOf(ts)>> \o rest :
                    ts \in [1..k -> tickables],
                    rest \in VoiceListsOf(tickables, v - 1, n - k)} : k \in 0..n}
\* the lists of MaxVoices voices or fewer holding MaxNotes tickables or fewer
VoiceLists(tickables) ==
    UNION {VoiceListsOf(tickables, v, MaxNotes) : v \in 0..MaxVoices}
VoicesAccBeats == {Fraction(0, 1), Fraction(1, 8), Fraction(1, 4)}

VoicesAccInit ==
    /\ args \in [voices : VoiceLists(VoicesAccTickables), stopBeat : VoicesAccBeats]
    /\ result = None
    /\ pc = "getVoicesAccidentals"
    /\ iterable = <<>> /\ i = 0 /\ closest = None /\ distance = None
    /\ evaluated = {} /\ returned = FALSE
    /\ tables = ModuleTables /\ calls = <<>>

CallGetVoicesAccidentals ==
    /\ pc = "getVoicesAccidentals"
    /\ result' = Some(getVoicesAccidentals(args.voices, args.stopBeat))
    /\ pc' = "done"
    /\ UNCHANGED <<args, gcVars, heapVars>>

VoicesAccNext == CallGetVoicesAccidentals

SpecVoicesAcc == VoicesAccInit /\ [][VoicesAccNext]_vars

\* the ticks before tickable n of a voice
RECURSIVE TicksBefore(_, _)
TicksBefore(voice, n) ==
    IF n <= 1 THEN 0
    ELSE TicksBefore(voice, n - 1) + voice.tickables[n - 1].ticks.numerator
\* whether tickable n of the voice starts at or before the beat: its ticks
\* over the resolution against the beat, cross-multiplied
StartsAtOrBefore(voice, n, beat) ==
    TicksBefore(voice, n) * beat.denominator <= beat.numerator * voice.resolution
\* whether tickable n of voice v starts before tickable m of voice w
StartsBefore(v, n, w, m) ==
    TicksBefore(args.voices[v], n) * args.voices[w].resolution
        < TicksBefore(args.voices[w], m) * args.voices[v].resolution

\* the pitch keys that carry an accidental at a beat <= stopBeat, as
\* (voice, tickable, key) positions
VoicesAccKept ==
    {p \in KeyPositions(args.voices) :
        /\ PositionAccidentals(args.voices, p) # {}
        /\ StartsAtOrBefore(args.voices[p[1]], p[2], args.stopBeat)}
KeptKey(p) ==
    OverrideKey(KeyLetter(KeyAt(args.voices, p)), KeyOctave(KeyAt(args.voices, p)))

\* the overrides as C4 has them, the keys kept being those at kept
VoicesAccOverridesAsClaimed(kept) ==
    /\ DOMAIN Val(result) = {KeptKey(p) : p \in kept}
    /\ \A key \in DOMAIN Val(result) :
          \E p \in kept :
              /\ KeptKey(p) = key
              /\ Val(result)[key] \in PositionAccidentals(args.voices, p)
              /\ \A q \in kept :
                    KeptKey(q) = key => ~StartsBefore(p[1], p[2], q[1], q[2])

\* C4: getVoicesAccidentals keeps exactly the pitch keys that carry an
\* accidental, from the key string or from the modifier at the key's index,
\* at a beat <= stopBeat, and the override of each (letter, octave) is the
\* accidental of a kept key of the greatest beat.
C4_KeptAccidentalsLatestWins ==
    pc = "done" => VoicesAccOverridesAsClaimed(VoicesAccKept)

\* the same, for the scores none of whose kept keys is in octave 0
VoicesAccLatestWinsFromOctaveOne ==
    (pc = "done" /\ \A p \in VoicesAccKept : KeptKey(p)[2] # 0) =>
        VoicesAccOverridesAsClaimed(VoicesAccKept)

----------------------------------------------------------------------------
(* Geometry and the hit test *)

\* the overshoot measured from the lower bound on both sides
getAbsOutsideRangeFromMin(num, min, max) ==
    IF num < min THEN min - num
    ELSE IF num > max THEN num - min
    ELSE 0

getAbsOutsideRange(num, min, max) ==
    IF num < min THEN min - num
    ELSE IF num > max THEN num - max
    ELSE 0

\* getDistance squared: xDiff^2 + yDiff^2
getDistance(point, boundingBox) ==
    LET xDiff == getAbsOutsideRange(point.x, boundingBox.x, boundingBox.x + boundingBox.w)
        yDiff == getAbsOutsideRange(point.y, boundingBox.y, boundingBox.y + boundingBox.h)
    IN  xDiff * xDiff + yDiff * yDiff

\* stave.getYForLine(line) for a line given as a number of half lines
getYForHalfLines(stave, halfLines) ==
    stave.y + (halfLines * Val(stave.options.spacing_between_lines_px)) \div 2
    + stave.options.space_above_staff_ln * Val(stave.options.spacing_between_lines_px)

getStaveCenterY(stave) ==
    getYForHalfLines(stave,
        (IF IsSome(stave.options.num_lines) /\ Val(stave.options.num_lines) # 0
         THEN Val(stave.options.num_lines) ELSE 5) - 1)

\* Math.round(n / d) for d # 0: the floor of n/d + 1/2
RoundedQuotient(n, d) ==
    IF d > 0 THEN (2 * n + d) \div (2 * d) ELSE (-(2 * n + d)) \div (-(2 * d))

\* the offset counted in whole line spacings: Math.round((centerY - pt.y) / spacing)
getCenterLineOffsetInLines(stave, point) ==
    LET centerY == getStaveCenterY(stave)
        spacing == IF IsSome(stave.options.spacing_between_lines_px)
                   THEN Val(stave.options.spacing_between_lines_px) ELSE 0
    IN  IF spacing # 0 THEN Finite(RoundedQuotient(centerY - point.y, spacing))
        ELSE IF centerY > point.y THEN PlusInfinity
        ELSE IF centerY < point.y THEN MinusInfinity
        ELSE NaN

\* Math.round((centerY - pt.y) / (spacing / 2)); a division by 0 gives an
\* infinity, and 0 / 0 gives NaN
getCenterLineOffset(stave, point) ==
    LET centerY == getStaveCenterY(stave)
        spacing == IF IsSome(stave.options.spacing_between_lines_px)
                   THEN Val(stave.options.spacing_between_lines_px) ELSE 0
    IN  IF spacing # 0 THEN Finite(RoundedQuotient(2 * (centerY - point.y), spacing))
        ELSE IF centerY > point.y THEN PlusInfinity
        ELSE IF centerY < point.y THEN MinusInfinity
        ELSE NaN

\* the distance getClosestSystemMeasure gives a measure, none when a value
\* of its box is missing or its height is not positive
systemMeasureDistance(meas, point) ==
    LET x == meas.options.x
        y == meas.options.y
        w == meas.options.width
        h == IF IsSome(y) /\ IsSome(meas.lastY) /\ Val(meas.lastY) # 0
                /\ Val(meas.lastY) - Val(y) > 0
             THEN Some(Val(meas.lastY) - Val(y)) ELSE None
    IN  IF IsSome(x) /\ IsSome(y) /\ IsSome(w) /\ IsSome(h)
        THEN Some(getDistance(point, [x |-> Val(x), y |-> Val(y),
                                      w |-> Val(w), h |-> Val(h)]))
        ELSE None

getClosestSystemMeasure(systems, point) ==
    getClosest(systems, [k \in 1..Len(systems) |-> systemMeasureDistance(systems[k], point)])

\* the loop with `>=` for `>`: a note-event starting at the click is after it
RECURSIVE closestTickableScanAfterAtEdge(_, _, _, _)
closestTickableScanAfterAtEdge(timeline, ptX, k, itemBefore) ==
    IF k > Len(timeline) THEN [itemBefore |-> itemBefore, itemAfter |-> None]
    ELSE LET tickableBB == timeline[k].tickable.boundingBox
         IN  IF ~IsSome(tickableBB)
             THEN closestTickableScanAfterAtEdge(timeline, ptX, k + 1, itemBefore)
             ELSE IF Val(tickableBB).x >= ptX
             THEN [itemBefore |-> itemBefore, itemAfter |-> Some(timeline[k])]
             ELSE IF Val(tickableBB).x + Val(tickableBB).w > ptX
             THEN [itemBefore |-> Some(timeline[k]), itemAfter |-> None]
             ELSE closestTickableScanAfterAtEdge(timeline, ptX, k + 1,
                                                 Some(timeline[k]))

\* the loop of getClosestTickable over the timeline from position k on
RECURSIVE closestTickableScan(_, _, _, _)
closestTickableScan(timeline, ptX, k, itemBefore) ==
    IF k > Len(timeline) THEN [itemBefore |-> itemBefore, itemAfter |-> None]
    ELSE LET tickableBB == timeline[k].tickable.boundingBox
         IN  IF ~IsSome(tickableBB)
             THEN closestTickableScan(timeline, ptX, k + 1, itemBefore)
             ELSE IF Val(tickableBB).x > ptX
             THEN [itemBefore |-> itemBefore, itemAfter |-> Some(timeline[k])]
             ELSE IF Val(tickableBB).x + Val(tickableBB).w > ptX
             THEN [itemBefore |-> Some(timeline[k]), itemAfter |-> None]
             ELSE closestTickableScan(timeline, ptX, k + 1, Some(timeline[k]))

\* getClosestTickable: [itemBefore, itemAfter] without the undefined ones
getClosestTickable(voice, ptX) ==
    LET scan == closestTickableScan(getTickablesAndBeats(voice), ptX, 1, None)
    IN  scan.itemBefore \o scan.itemAfter

\* the reduce step that keeps the current candidate whatever its distance
closerTickableCurrent(prevBest, cur, point) == Some(cur)

\* getClosest([prevBest, cur].filter(defined), distance to the box)?.item
closerTickable(prevBest, cur, point) ==
    LET pair == prevBest \o <<cur>>
        found == getClosest(pair, [k \in 1..Len(pair) |->
                     Some(getDistance(point, Val(pair[k].tickable.boundingBox)))])
    IN  IF IsSome(found) THEN Some(Val(found).item) ELSE None

\* the reduce over the lists of the voices: the first entry of each
RECURSIVE reduceBefore(_, _, _, _)
reduceBefore(closestTickableList, point, k, prevBest) ==
    IF k > Len(closestTickableList) THEN prevBest
    ELSE reduceBefore(closestTickableList, point, k + 1,
            IF Len(closestTickableList[k]) < 1 THEN prevBest
            ELSE closerTickable(prevBest, closestTickableList[k][1], point))

\* the reduce over the flattened lists
RECURSIVE reduceClosest(_, _, _, _)
reduceClosest(candidates, point, k, prevBest) ==
    IF k > Len(candidates) THEN prevBest
    ELSE reduceClosest(candidates, point, k + 1,
                       closerTickable(prevBest, candidates[k], point))

getClosestTickableResult(voices, point) ==
    LET closestTickableList ==
            [v \in 1..Len(voices) |-> getClosestTickable(voices[v], point.x)]
    IN  [closestTickable |-> reduceClosest(Flatten(closestTickableList), point, 1, None),
         closestTickableBefore |-> reduceBefore(closestTickableList, point, 1, None)]

----------------------------------------------------------------------------
(* The specification of getClosestTickableResult: one call on each list of *)
(* voices and each point                                                   *)

\* a laid-out quarter note c/5 with its bounding box
NoteAt(boundingBox) ==
    [StaveNote(<<<<"c", "/", "5">>>>, QUARTER_TICKS, <<>>)
        EXCEPT !.boundingBox = boundingBox]

TickBoxes == [x : {2, 6}, y : {0, 10}, w : {2, 6}, h : {4}]
TickTickables == {NoteAt(None)} \cup {NoteAt(Some(bb)) : bb \in TickBoxes}
TickPoints == [x : {0, 3, 5, 7}, y : {2, 7}]

TickInit ==
    /\ args \in [voices : VoiceLists(TickTickables), pt : TickPoints]
    /\ result = None
    /\ pc = "getClosestTickableResult"
    /\ iterable = <<>> /\ i = 0 /\ closest = None /\ distance = None
    /\ evaluated = {} /\ returned = FALSE
    /\ tables = ModuleTables /\ calls = <<>>

CallGetClosestTickableResult ==
    /\ pc = "getClosestTickableResult"
    /\ result' = Some(getClosestTickableResult(args.voices, args.pt))
    /\ pc' = "done"
    /\ UNCHANGED <<args, gcVars, heapVars>>

TickNext == CallGetClosestTickableResult

SpecTick == TickInit /\ [][TickNext]_vars

\* whether some voice holds a note-event with a bounding box whose left
\* edge is at or before the click's x
TickSomeBefore ==
    \E v \in 1..Len(args.voices) : \E n \in 1..Len(args.voices[v].tickables) :
        /\ IsSome(args.voices[v].tickables[n].boundingBox)
        /\ Val(args.voices[v].tickables[n].boundingBox).x <= args.pt.x

\* C1: closestTickableBefore, when present, has its left edge at or before
\* the click's x, and it is absent when no voice has a note-event with a
\* bounding box whose left edge is at or before the click's x.
C1_BeforeIsBefore ==
    pc = "done" =>
        /\ IsSome(Val(result).closestTickableBefore) =>
              Val(Val(Val(result).closestTickableBefore).tickable.boundingBox).x
                  <= args.pt.x
        /\ ~TickSomeBefore => ~IsSome(Val(result).closestTickableBefore)

\* the before and after candidates of all voices, and the voices that
\* contribute one
TickCandidates ==
    Flatten([v \in 1..Len(args.voices) |->
                getClosestTickable(args.voices[v], args.pt.x)])
TickContributing ==
    {v \in 1..Len(args.voices) :
        getClosestTickable(args.voices[v], args.pt.x) # <<>>}
TickDistance(candidate) ==
    getDistance(args.pt, Val(candidate.tickable.boundingBox))

\* C14: closestTickable has the minimum rectangle distance to the click
\* among the before and after candidates of all voices; a voice without a
\* candidate does not affect the result, and closestTickable is absent
\* exactly when no voice contributes a candidate.
C14_ClosestOfCandidates ==
    pc = "done" =>
        LET closestTickable == Val(result).closestTickable
        IN  /\ IsSome(closestTickable) <=> TickContributing # {}
            /\ IsSome(closestTickable) =>
                  /\ \E k \in 1..Len(TickCandidates) :
                        TickCandidates[k] = Val(closestTickable)
                  /\ \A k \in 1..Len(TickCandidates) :
                        TickDistance(Val(closestTickable))
                            <= TickDistance(TickCandidates[k])
            /\ closestTickable =
                  getClosestTickableResult(
                      FilterAt(args.voices, TickContributing, 1),
                      args.pt).closestTickable

\* two voices, the first without a candidate, the second with a candidate
\* before and a strictly closer candidate after, which is the result
C14_Witness ==
    /\ pc = "done"
    /\ Len(args.voices) = 2
    /\ TickContributing = {2}
    /\ Len(TickCandidates) = 2
    /\ TickDistance(TickCandidates[2]) < TickDistance(TickCandidates[1])
    /\ Val(result).closestTickable = Some(TickCandidates[2])

----------------------------------------------------------------------------
(* getScoreMouseEvent: the record of a click *)

\* closestFunct of the stave search: Math.abs(pt.y - getStaveCenterY(stave))
staveDistances(parts, pt) ==
    [k \in 1..Len(parts) |-> Some(Abs(pt.y - getStaveCenterY(Val(parts[k].stave))))]

\* the closest stave reported at the index of the last part
scoreMouseEventStaveAtLastIdx(sysMeasureResult, pt) ==
    LET parts == IF IsSome(sysMeasureResult)
                 THEN Val(sysMeasureResult).item.parts ELSE <<>>
        found == getClosest([k \in 1..Len(parts) |-> parts[k].stave],
                            staveDistances(parts, pt))
    IN  IF IsSome(found)
        THEN Some([Val(found) EXCEPT !.idx = Len(parts) - 1])
        ELSE None

\* the stave search on the parts of the measure found, none without a measure
scoreMouseEventStave(sysMeasureResult, pt) ==
    LET parts == IF IsSome(sysMeasureResult)
                 THEN Val(sysMeasureResult).item.parts ELSE <<>>
    IN  getClosest([k \in 1..Len(parts) |-> parts[k].stave], staveDistances(parts, pt))

\* the locals set from the measure and the stave found: offset and note-events
scoreMouseEventLocals(sysMeasureResult, staveResult, pt) ==
    LET closestSystemMeasure ==
            IF IsSome(sysMeasureResult) THEN Some(Val(sysMeasureResult).item) ELSE None
        measureIdx ==
            IF IsSome(sysMeasureResult) THEN Some(Val(sysMeasureResult).idx) ELSE None
        parts == IF IsSome(closestSystemMeasure)
                 THEN Val(closestSystemMeasure).parts ELSE <<>>
        closestStave == IF IsSome(staveResult) THEN Val(staveResult).item ELSE None
        closestStaveIdx == IF IsSome(staveResult) THEN Some(Val(staveResult).idx) ELSE None
        hasStave == IsSome(closestStave) /\ IsSome(closestStaveIdx)
        tickables ==
            IF hasStave /\ Len(parts) > Val(closestStaveIdx)
            THEN getClosestTickableResult(At(parts, Val(closestStaveIdx)).voices, pt)
            ELSE [closestTickable |-> None, closestTickableBefore |-> None]
    IN  [measureIdx |-> measureIdx,
         closestSystemMeasure |-> closestSystemMeasure,
         closestStaveIdx |-> closestStaveIdx,
         closestStave |-> closestStave,
         closestTickable |-> tickables.closestTickable,
         closestTickableBefore |-> tickables.closestTickableBefore,
         centerLineOffset |->
            IF hasStave THEN Some(getCenterLineOffset(Val(closestStave), pt)) ELSE None]

\* the fields found before the pitch: measure, stave, offset and note-events.
\* Each search is evaluated once and its result handed on, as the code
\* keeps it in a local.
scoreMouseEventHit(systems, pt) ==
    LET measures == {getClosestSystemMeasure(systems, pt)}
        staves == {<<m, scoreMouseEventStave(m, pt)>> : m \in measures}
        hits == {scoreMouseEventLocals(ms[1], ms[2], pt) : ms \in staves}
    IN  CHOOSE hit \in hits : TRUE

\* the noteMap parameter: NOTE_MAPPING replaces an undefined argument
noteMapOrDefault(noteMap) == IF IsSome(noteMap) THEN Val(noteMap) ELSE NOTE_MAPPING

\* whether the call reaches getNoteAndOctave: a note map is an object and
\* the offset of a found stave is a number, so both tests pass
scoreMouseEventReachesPitch(hit) ==
    IsSome(hit.closestTickableBefore) /\ IsSome(hit.centerLineOffset)

\* effectivePitch of the note-event before the click under the accidentals
\* fetched, none when they were not
scoreMouseEventPitchUnder(hit, noteMap, accidentals) ==
    LET pitchTick == Val(hit.closestTickableBefore).tickable
    IN  [accidentals |-> accidentals,
         effectivePitch |->
            getNoteAndOctave(noteMap, Val(pitchTick.clef), Val(hit.centerLineOffset),
                             pitchTick.octave_shift, accidentals)]

\* the pitch block with the pitch computed only when accidentals are fetched
scoreMouseEventPitchOnlyWithAccidentals(systems, hit, noteMap, fetchAccidentals) ==
    IF ~scoreMouseEventReachesPitch(hit) \/ ~fetchAccidentals
    THEN [accidentals |-> None, effectivePitch |-> None]
    ELSE LET fetched ==
                 {Some(getAccidentals(systems, Val(hit.closestStaveIdx),
                                      Val(hit.measureIdx),
                                      Val(hit.closestTickableBefore).beat))}
         IN  CHOOSE pitch \in {scoreMouseEventPitchUnder(hit, noteMap, accidentals) :
                                  accidentals \in fetched} : TRUE

\* the pitch block: accidentals by the flag, effectivePitch in either case
scoreMouseEventPitch(systems, hit, noteMap, fetchAccidentals) ==
    IF ~scoreMouseEventReachesPitch(hit)
    THEN [accidentals |-> None, effectivePitch |-> None]
    ELSE LET fetched ==
                 {IF fetchAccidentals
                  THEN Some(getAccidentals(systems, Val(hit.closestStaveIdx),
                                           Val(hit.measureIdx),
                                           Val(hit.closestTickableBefore).beat))
                  ELSE None}
         IN  CHOOSE pitch \in {scoreMouseEventPitchUnder(hit, noteMap, accidentals) :
                                  accidentals \in fetched} : TRUE

\* whether the call never returns: getNoteAndOctave is reached with an
\* infinite offset
getScoreMouseEventLoopsForever(hit) ==
    /\ scoreMouseEventReachesPitch(hit)
    /\ getNoteAndOctaveLoopsForever(Val(hit.centerLineOffset))

\* the record getScoreMouseEvent returns, of the locals of the hit test and
\* of the pitch block
getScoreMouseEvent(hit, pitch, pt) ==
    [accidentals |-> pitch.accidentals,
     measureIdx |-> hit.measureIdx,
     closestSystemMeasure |-> hit.closestSystemMeasure,
     closestStaveIdx |-> hit.closestStaveIdx,
     closestStave |-> hit.closestStave,
     closestTickable |-> hit.closestTickable,
     closestTickableBefore |-> hit.closestTickableBefore,
     centerLineOffset |-> hit.centerLineOffset,
     effectivePitch |-> pitch.effectivePitch,
     mouseX |-> pt.x,
     mouseY |-> pt.y]

----------------------------------------------------------------------------
(* The specification of getScoreMouseEvent: one call on each score, click, *)
(* note map and flag                                                       *)

MaxEventMeasures == 2
MaxEventParts == 2

\* staves centred at y = 80 (in G major) and y = 120, and one centred at
\* y = 80 whose line spacing is 0
EventStaves ==
    {Some(StaveAt(20, Some(10), <<ClefModifier, KeySignatureModifier(<<"G">>)>>)),
     Some(StaveAt(60, Some(10), <<ClefModifier>>)),
     Some(StaveAt(80, Some(0), <<ClefModifier>>))}

\* no voice, or one voice with c#/5 at x = 25 followed by c/5 at x = 60
EventVoiceLists ==
    {<<>>,
     <<VoiceOf(<<[AccNoteCSharp5 EXCEPT
                    !.boundingBox = Some([x |-> 25, y |-> 60, w |-> 10, h |-> 10])],
                 NoteAt(Some([x |-> 60, y |-> 60, w |-> 10, h |-> 10]))>>)>>}

EventParts == [stave : EventStaves, voices : EventVoiceLists]

\* measures at x = 20 of width 150 from y = 0 to lastY = 140, and one
\* measure that has not been formatted: no lastY
EventMeasures ==
    {[options |-> [x |-> Some(20), y |-> Some(0), width |-> Some(150)],
      lastY |-> Some(140), parts |-> ps] : ps \in SeqsUpTo(EventParts, MaxEventParts)}
    \cup {[options |-> [x |-> Some(20), y |-> Some(0), width |-> Some(150)],
           lastY |-> None,
           parts |-> <<[stave |-> Some(StaveAt(60, Some(10), <<ClefModifier>>)),
                        voices |-> <<>>]>>]}

\* the measure at x = 20, y = 80 of width 150 with one five-line staff
\* centred at y = 80 with a line spacing of 10, a treble clef and one quarter
\* note c/5 whose bounding box is {25, 60, 10, 10}
ScenarioNote == NoteAt(Some([x |-> 25, y |-> 60, w |-> 10, h |-> 10]))
ScenarioMeasure ==
    [options |-> [x |-> Some(20), y |-> Some(80), width |-> Some(150)],
     lastY |-> Some(180),
     parts |-> <<[stave |-> Some(StaveAt(20, Some(10), <<ClefModifier>>)),
                  voices |-> <<VoiceOf(<<ScenarioNote>>)>>]>>]

EventPoints == [x : {10, 27, 55, 62}, y : {58, 80, 110}]

\* the noteMap argument: omitted, or a caller's table with the letters of
\* the indices 0 (C) and 4 (G) only
EventNoteMaps == {None, Some([k \in {0, 4} |-> NOTE_MAPPING[k]])}

EventInit ==
    /\ args \in [systems : SeqsUpTo(EventMeasures \cup {ScenarioMeasure},
                                     MaxEventMeasures),
                 pt : EventPoints,
                 noteMap : EventNoteMaps,
                 fetchAccidentals : BOOLEAN]
    /\ result = None
    /\ pc = "getScoreMouseEvent"
    /\ iterable = <<>> /\ i = 0 /\ closest = None /\ distance = None
    /\ evaluated = {} /\ returned = FALSE
    /\ tables = ModuleTables /\ calls = <<>>

\* the call returns its record: the hit test, then the pitch block
CallGetScoreMouseEvent ==
    /\ pc = "getScoreMouseEvent"
    /\ \E hit \in {scoreMouseEventHit(args.systems, args.pt)} :
          /\ ~getScoreMouseEventLoopsForever(hit)
          /\ \E pitch \in {scoreMouseEventPitch(args.systems, hit,
                                                noteMapOrDefault(args.noteMap),
                                                args.fetchAccidentals)} :
                result' = Some(getScoreMouseEvent(hit, pitch, args.pt))
    /\ pc' = "done"
    /\ UNCHANGED <<args, gcVars, heapVars>>

\* the call enters a loop of getNoteAndOctave that does not end
GetScoreMouseEventLoops ==
    /\ pc = "getScoreMouseEvent"
    /\ \E hit \in {scoreMouseEventHit(args.systems, args.pt)} :
          getScoreMouseEventLoopsForever(hit)
    /\ pc' = "looping"
    /\ UNCHANGED <<args, result, gcVars, heapVars>>

EventNext == CallGetScoreMouseEvent \/ GetScoreMouseEventLoops

SpecEvent == EventInit /\ [][EventNext]_vars

\* the accidental context in which no accidental is in effect
NoAccidentals == [keySig |-> EmptyObject, accidentalOverrides |-> EmptyObject]

\* the pitch of the returned offset with no accidental in effect, read from
\* the note-event before the click
EventNaturalPitch ==
    LET before == Val(Val(result).closestTickableBefore)
    IN  getNoteAndOctave(noteMapOrDefault(args.noteMap), Val(before.tickable.clef),
                         Val(Val(result).centerLineOffset),
                         before.tickable.octave_shift, Some(NoAccidentals))

\* C2 as stated: with fetchAccidentals = false both accidentals and
\* effectivePitch are absent from the returned record.
C2_FlagOffOmitsBoth ==
    (pc = "done" /\ ~args.fetchAccidentals) =>
        /\ ~IsSome(Val(result).accidentals)
        /\ ~IsSome(Val(result).effectivePitch)

\* C2, amended: with fetchAccidentals = false accidentals is absent from the
\* returned record, and effectivePitch is still computed: when a note-event
\* before the click is found it is the pitch of the click's offset with no
\* accidental in effect, and it is absent when none is found.
C2_FlagOffOmitsAccidentalsOnly ==
    (pc = "done" /\ ~args.fetchAccidentals) =>
        /\ ~IsSome(Val(result).accidentals)
        /\ Val(result).effectivePitch =
              IF IsSome(Val(result).closestTickableBefore)
              THEN EventNaturalPitch ELSE None

C2_Witness ==
    /\ pc = "done" /\ ~args.fetchAccidentals
    /\ IsSome(Val(result).closestTickable)
    /\ IsSome(Val(result).closestTickableBefore)
    /\ ~IsSome(Val(result).accidentals)
    /\ IsSome(Val(result).effectivePitch)
    /\ Val(Val(result).effectivePitch).octave = 5

\* whether no measure of the score can be given a distance
EventNoMeasure ==
    \A k \in 1..Len(args.systems) :
        ~IsSome(systemMeasureDistance(args.systems[k], args.pt))

\* the voices of the staff the record names
EventVoices ==
    At(Val(Val(result).closestSystemMeasure).parts,
       Val(Val(result).closestStaveIdx)).voices

\* whether a voice of that staff has a note-event with a bounding box whose
\* left edge is at or before the click's x
EventSomeBefore ==
    \E v \in 1..Len(EventVoices) : \E n \in 1..Len(EventVoices[v].tickables) :
        /\ IsSome(EventVoices[v].tickables[n].boundingBox)
        /\ Val(EventVoices[v].tickables[n].boundingBox).x <= args.pt.x

EventStaffFieldsAbsent ==
    /\ ~IsSome(Val(result).closestStaveIdx)
    /\ ~IsSome(Val(result).closestStave)
    /\ ~IsSome(Val(result).closestTickable)
    /\ ~IsSome(Val(result).closestTickableBefore)
    /\ ~IsSome(Val(result).centerLineOffset)
    /\ ~IsSome(Val(result).effectivePitch)
    /\ ~IsSome(Val(result).accidentals)

\* the record of a score without a distanceable measure, and of a measure
\* without staves; mouseX and mouseY
EventNotFoundMeasureOrStaff ==
    pc = "done" =>
        /\ Val(result).mouseX = args.pt.x /\ Val(result).mouseY = args.pt.y
        /\ EventNoMeasure =>
              /\ ~IsSome(Val(result).measureIdx)
              /\ ~IsSome(Val(result).closestSystemMeasure)
              /\ EventStaffFieldsAbsent
        /\ (~EventNoMeasure /\ Val(Val(result).closestSystemMeasure).parts = <<>>)
              => EventStaffFieldsAbsent

\* the record of a click with no note-event before it
EventNotFoundBefore ==
    (pc = "done" /\ IsSome(Val(result).closestStaveIdx) /\ ~EventSomeBefore) =>
        /\ ~IsSome(Val(result).closestTickableBefore)
        /\ ~IsSome(Val(result).effectivePitch)
        /\ ~IsSome(Val(result).accidentals)

\* C16: getScoreMouseEvent returns a record on every not-found condition:
\* without a distanceable measure every field but mouseX and mouseY is
\* absent; with a measure without staves the staff, note-event, offset,
\* pitch and accidental fields are absent; with no note-event before the
\* click closestTickableBefore, effectivePitch and accidentals are absent;
\* mouseX and mouseY are the click's coordinates.
C16_NotFoundFieldsAbsent == EventNotFoundMeasureOrStaff /\ EventNotFoundBefore

\* the scenario after the call: the measure alone, clicked at (27, 58),
\* with the note map of getNoteMap
ScenarioDone ==
    /\ pc = "done"
    /\ args.systems = <<ScenarioMeasure>>
    /\ args.pt = [x |-> 27, y |-> 58]
    /\ args.noteMap = None

ScenarioNoteIsClosest ==
    LET item == Some([tickable |-> ScenarioNote, beat |-> Fraction(0, 1)])
    IN  /\ Val(result).closestTickable = item
        /\ Val(result).closestTickableBefore = item

\* C17 as stated: in the scenario the note is closestTickable and
\* closestTickableBefore, and the pitch of the click has letter C, octave 5.
C17_ScenarioPitchC5 ==
    ScenarioDone =>
        /\ ScenarioNoteIsClosest
        /\ IsSome(Val(result).effectivePitch)
        /\ Val(Val(result).effectivePitch).note.noteName.noteLetter = "C"
        /\ Val(Val(result).effectivePitch).octave = 5

\* C17, amended: in the scenario the note is closestTickable and
\* closestTickableBefore, the click's center-line offset is 4 (22 px above
\* the center line, half a line spacing being 5 px), and the pitch of the
\* click has letter F, octave 5, natural: the top line of the treble staff.
C17_ScenarioPitchF5 ==
    ScenarioDone =>
        /\ ScenarioNoteIsClosest
        /\ Val(result).centerLineOffset = Some(Finite(4))
        /\ IsSome(Val(result).effectivePitch)
        /\ Val(Val(result).effectivePitch).note.noteName
              = [accidental |-> "n", noteLetter |-> "F"]
        /\ Val(Val(result).effectivePitch).octave = 5

C17_Witness ==
    /\ ScenarioDone
    /\ ~args.fetchAccidentals
    /\ Val(result).measureIdx = Some(0)
    /\ Val(result).closestStaveIdx = Some(0)
    /\ IsSome(Val(result).effectivePitch)

\* the call under the scheduling of a JavaScript call: once entered, it
\* runs
\* on the scores of one measure or none
EventLiveInit ==
    /\ args \in [systems : SeqsUpTo(EventMeasures \cup {ScenarioMeasure}, 1),
                 pt : EventPoints,
                 noteMap : EventNoteMaps,
                 fetchAccidentals : BOOLEAN]
    /\ result = None
    /\ pc = "getScoreMouseEvent"
    /\ iterable = <<>> /\ i = 0 /\ closest = None /\ distance = None
    /\ evaluated = {} /\ returned = FALSE
    /\ tables = ModuleTables /\ calls = <<>>

\* a call that has been entered goes on: it leaves its entry point, by
\* returning or by entering the loop it stays in.  EventNext is enabled at
\* every entry point, so this is weak fairness of EventNext, stated on the
\* position alone.
EventLeavesEntry ==
    /\ pc = "getScoreMouseEvent"
    /\ pc' \in {"done", "looping"}
    /\ UNCHANGED <<args, result, gcVars, heapVars>>

SpecEventLive == EventLiveInit /\ [][EventNext]_vars /\ WF_pc(EventLeavesEntry)

\* C18: every call of getScoreMouseEvent terminates, for every finite score
\* and click, a staff with a line spacing of 0 included: each loop, the two
\* octave loops of getNoteAndOctave included, ends for every center-line
\* offset that getCenterLineOffset can produce.
C18_CallTerminates == <>(pc = "done")

----------------------------------------------------------------------------
(* The specification of getDistance: one call on each point and rectangle *)

MaxCoordinate == 5
MaxExtent == 3

DistancePoints == [x : -2..MaxCoordinate, y : -2..MaxCoordinate]
DistanceBoxes == [x : 0..2, y : 0..2, w : 0..MaxExtent, h : 0..MaxExtent]

DistanceInit ==
    /\ args \in [point : DistancePoints, boundingBox : DistanceBoxes]
    /\ result = None
    /\ pc = "getDistance"
    /\ iterable = <<>> /\ i = 0 /\ closest = None /\ distance = None
    /\ evaluated = {} /\ returned = FALSE
    /\ tables = ModuleTables /\ calls = <<>>

\* the call returns the distance, kept as its square: the argument of
\* Math.sqrt
CallGetDistance ==
    /\ pc = "getDistance"
    /\ result' = Some(getDistance(args.point, args.boundingBox))
    /\ pc' = "done"
    /\ UNCHANGED <<args, gcVars, heapVars>>

DistanceNext == CallGetDistance

SpecDistance == DistanceInit /\ [][DistanceNext]_vars

\* whether v lies in [lo, lo + extent], edges included
WithinSpan(v, lo, extent) == lo <= v /\ v <= lo + extent

\* 0 inside the span, else the absolute distance to the nearer bound
Overshoot(v, lo, extent) ==
    IF WithinSpan(v, lo, extent) THEN 0
    ELSE Min(Abs(v - lo), Abs(v - (lo + extent)))

DistanceInside ==
    /\ WithinSpan(args.point.x, args.boundingBox.x, args.boundingBox.w)
    /\ WithinSpan(args.point.y, args.boundingBox.y, args.boundingBox.h)

\* C11: for w, h >= 0 getDistance is 0 exactly when x is in [xbb, xbb+w] and
\* y is in [ybb, ybb+h], edges included; otherwise its square is dx^2 + dy^2
\* with dx, dy the per-axis overshoots (0 inside the axis range, else the
\* absolute distance to the nearer bound).
C11_DistanceToRectangle ==
    pc = "done" =>
        LET dx == Overshoot(args.point.x, args.boundingBox.x, args.boundingBox.w)
            dy == Overshoot(args.point.y, args.boundingBox.y, args.boundingBox.h)
        IN  /\ (Val(result) = 0) <=> DistanceInside
            /\ Val(result) = dx * dx + dy * dy

\* a click beyond the right edge and above the top edge of a rectangle with
\* a positive width
C11_Witness ==
    /\ pc = "done"
    /\ args.boundingBox.w > 0
    /\ args.point.x > args.boundingBox.x + args.boundingBox.w
    /\ args.point.y < args.boundingBox.y
    /\ Val(result) > 1

----------------------------------------------------------------------------
(* The specification of getTickablesAndBeats: calls on each voice *)

MaxBeatNotes == 4

\* a quarter not yet laid out, a laid-out eighth, a triplet eighth and a
\* rest-like tickable that is not a stave note
BeatTickables ==
    {StaveNote(<<<<"c", "/", "5">>>>, QUARTER_TICKS, <<>>),
     [NoteAt(Some([x |-> 25, y |-> 60, w |-> 10, h |-> 10]))
        EXCEPT !.ticks = Fraction(EIGHTH_TICKS, 1)],
     [NoteAt(Some([x |-> 40, y |-> 60, w |-> 10, h |-> 10]))
        EXCEPT !.ticks = Fraction(QUARTER_TICKS, 3)],
     GhostNote(EIGHTH_TICKS)}

BeatVoices ==
    [resolution : {QUARTER_TICKS, RESOLUTION},
     tickables : SeqsUpTo(BeatTickables, MaxBeatNotes)]

BeatInit ==
    /\ args \in [voice : BeatVoices]
    /\ result = None
    /\ pc = "getTickablesAndBeats"
    /\ iterable = <<>> /\ i = 0 /\ closest = None /\ distance = None
    /\ evaluated = {} /\ returned = FALSE
    /\ tables = ModuleTables /\ calls = <<>>

\* a call, the first or a later one on the same voice: the code reads the
\* voice through getActualResolution, getTickables and getTicks, and works
\* on clones of the fractions
CallGetTickablesAndBeats ==
    /\ pc \in {"getTickablesAndBeats", "done"}
    /\ result' = Some(getTickablesAndBeats(args.voice))
    /\ pc' = "done"
    /\ UNCHANGED <<args, gcVars, heapVars>>

BeatNext == CallGetTickablesAndBeats

SpecBeats == BeatInit /\ [][BeatNext]_vars

\* the sum of the ticks of the first n tickables as a fraction over the
\* product of their denominators
RECURSIVE TicksSum(_, _)
TicksSum(tickables, n) ==
    IF n = 0 THEN Fraction(0, 1)
    ELSE LET rest == TicksSum(tickables, n - 1)
             t == tickables[n].ticks
         IN  Fraction(rest.numerator * t.denominator + t.numerator * rest.denominator,
                      rest.denominator * t.denominator)

\* whether beat is the reduced fraction of value sum / resolution
IsReducedQuotient(beat, sum, resolution) ==
    /\ beat.denominator > 0
    /\ GCD(Abs(beat.numerator), beat.denominator) = 1
    /\ beat.numerator * (sum.denominator * resolution)
           = beat.denominator * sum.numerator

QuarterAndTwoEighths ==
    [resolution |-> QUARTER_TICKS,
     tickables |-> <<StaveNote(<<<<"c", "/", "5">>>>, QUARTER_TICKS, <<>>),
                     GhostNote(EIGHTH_TICKS), GhostNote(EIGHTH_TICKS)>>]

BeatsAsClaimed ==
    pc = "done" =>
        LET items == Val(result)
            tickables == args.voice.tickables
        IN  /\ Len(items) = Len(tickables)
            /\ \A k \in 1..Len(items) :
                  /\ items[k].tickable = tickables[k]
                  /\ IsReducedQuotient(items[k].beat, TicksSum(tickables, k - 1),
                                       args.voice.resolution)
            /\ Len(items) > 0 => items[1].beat = Fraction(0, 1)
            /\ args.voice = QuarterAndTwoEighths =>
                  [k \in 1..3 |-> items[k].beat]
                      = <<Fraction(0, 1), Fraction(1, 1), Fraction(3, 2)>>

\* C12: getTickablesAndBeats returns one (note-event, beat) pair per
\* note-event in voice order, beat being the reduced fraction (sum of the
\* ticks of all preceding note-events, those without a bounding box
\* included) / resolution; the first beat is 0/1, and a quarter and two
\* eighths with resolution = quarter give 0/1, 1/1, 3/2.  A call leaves the
\* voice as it was and a later call on the voice returns the same sequence.
C12_BeatsOfVoice ==
    /\ []BeatsAsClaimed
    /\ [][args' = args /\ (pc = "done" => result' = result)]_vars

\* the quarter and two eighths, after a call
C12_Witness ==
    /\ pc = "done"
    /\ args.voice = QuarterAndTwoEighths
    /\ Val(result)[3].beat = Fraction(3, 2)

----------------------------------------------------------------------------
(* The specification of getClosestTickable: one call on each voice and x *)

MaxScanNotes == 3

ScanBoxes == [x : {2, 6}, y : {0}, w : {0, 2, 6}, h : {4}]
ScanTickables == {NoteAt(None)} \cup {NoteAt(Some(bb)) : bb \in ScanBoxes}
ScanXs == {0, 2, 3, 5, 7, 8}

ScanInit ==
    /\ args \in [voice : {VoiceOf(ts) : ts \in SeqsUpTo(ScanTickables, MaxScanNotes)},
                 ptX : ScanXs]
    /\ result = None
    /\ pc = "getClosestTickable"
    /\ iterable = <<>> /\ i = 0 /\ closest = None /\ distance = None
    /\ evaluated = {} /\ returned = FALSE
    /\ tables = ModuleTables /\ calls = <<>>

CallGetClosestTickable ==
    /\ pc = "getClosestTickable"
    /\ result' = Some(getClosestTickable(args.voice, args.ptX))
    /\ pc' = "done"
    /\ UNCHANGED <<args, gcVars, heapVars>>

ScanNext == CallGetClosestTickable

SpecScan == ScanInit /\ [][ScanNext]_vars

\* the positions of the note-events that have a bounding box
ScanBoxed ==
    {k \in 1..Len(args.voice.tickables) : IsSome(args.voice.tickables[k].boundingBox)}
ScanLeft(k) == Val(args.voice.tickables[k].boundingBox).x
ScanWidth(k) == Val(args.voice.tickables[k].boundingBox).w

\* the position the scan stops at: the first boxed note-event that starts
\* after ptX or whose span contains ptX; past the end when there is none
ScanStops ==
    {k \in ScanBoxed :
        \/ ScanLeft(k) > args.ptX
        \/ ScanLeft(k) <= args.ptX /\ args.ptX < ScanLeft(k) + ScanWidth(k)}
ScanStop ==
    IF ScanStops = {} THEN Len(args.voice.tickables) + 1
    ELSE CHOOSE k \in ScanStops : \A j \in ScanStops : k <= j

\* the scanned note-events whose left edge is at or before ptX
ScanBefore == {k \in ScanBoxed : k <= ScanStop /\ ScanLeft(k) <= args.ptX}
ScanHasAfter == ScanStops # {} /\ ScanLeft(ScanStop) > args.ptX

ScanExpected ==
    LET timeline == getTickablesAndBeats(args.voice)
    IN  (IF ScanBefore = {} THEN <<>>
         ELSE <<timeline[CHOOSE k \in ScanBefore : \A j \in ScanBefore : j <= k]>>)
        \o (IF ScanHasAfter THEN <<timeline[ScanStop]>> ELSE <<>>)

\* C13: getClosestTickable scans the note-events in voice order, skipping
\* those without a bounding box; item before is the last scanned one whose
\* left edge is <= ptX; the scan stops at the first one whose left edge is
\* > ptX, which is item after, and stops with no item after at the first one
\* whose span contains ptX.  The result has at most two entries, item before
\* first.
C13_ScanOfVoice ==
    pc = "done" =>
        /\ Val(result) = ScanExpected
        /\ Len(Val(result)) <= 2

\* a voice whose first note-event has no bounding box, with an item before
\* and an item after in the result
C13_Witness ==
    /\ pc = "done"
    /\ Len(args.voice.tickables) = 3
    /\ ~IsSome(args.voice.tickables[1].boundingBox)
    /\ Len(Val(result)) = 2
    /\ Val(Val(result)[1].tickable.boundingBox).x <= args.ptX
    /\ Val(Val(result)[2].tickable.boundingBox).x > args.ptX

----------------------------------------------------------------------------
(* The specification of getClosestSystemMeasure: one call on each list of *)
(* measures and each click                                                 *)

MaxSystemMeasures == 2

\* measures with each value of the box present or missing, at two x and two
\* y positions, with lastY missing, 0 or 100
SystemMeasures ==
    [options : [x : {None, Some(20), Some(180)},
                y : {None, Some(-10), Some(0)},
                width : {None, Some(150)}],
     lastY : {None, Some(0), Some(100)},
     parts : {<<>>}]
SystemPoints == [x : {10, 100, 200}, y : {-5, 50, 120}]

SystemInit ==
    /\ args \in [systems : SeqsUpTo(SystemMeasures, MaxSystemMeasures),
                 pt : SystemPoints]
    /\ result = None
    /\ pc = "getClosestSystemMeasure"
    /\ iterable = <<>> /\ i = 0 /\ closest = None /\ distance = None
    /\ evaluated = {} /\ returned = FALSE
    /\ tables = ModuleTables /\ calls = <<>>

CallGetClosestSystemMeasure ==
    /\ pc = "getClosestSystemMeasure"
    /\ result' = getClosestSystemMeasure(args.systems, args.pt)
    /\ pc' = "done"
    /\ UNCHANGED <<args, gcVars, heapVars>>

SystemNext == CallGetClosestSystemMeasure

SpecSystem == SystemInit /\ [][SystemNext]_vars

\* the measures the claim scores: x, y, width and lastY present, lastY > y
SystemScored ==
    {k \in 0..(Len(args.systems) - 1) :
        LET meas == At(args.systems, k)
        IN  /\ IsSome(meas.options.x) /\ IsSome(meas.options.y)
            /\ IsSome(meas.options.width) /\ IsSome(meas.lastY)
            /\ Val(meas.lastY) > Val(meas.options.y)}

\* the rectangle distance of the click to {x, y, width, lastY - y}
SystemDistance(k) ==
    LET meas == At(args.systems, k)
    IN  getDistance(args.pt, [x |-> Val(meas.options.x), y |-> Val(meas.options.y),
                              w |-> Val(meas.options.width),
                              h |-> Val(meas.lastY) - Val(meas.options.y)])

SystemContaining == {k \in SystemScored : SystemDistance(k) = 0}

\* the result the claim gives for a set of scored measures
SystemResultFor(scored) ==
    /\ IsSome(result) <=> scored # {}
    /\ IsSome(result) =>
          /\ Val(result).idx \in scored
          /\ Val(result).item = At(args.systems, Val(result).idx)
          /\ \A k \in scored : SystemDistance(Val(result).idx) <= SystemDistance(k)
          /\ SystemContaining # {} =>
                \A k \in SystemContaining : Val(result).idx <= k

\* C15: a measure is scored by the rectangle distance to {x, y, width,
\* lastY - y} whenever x, y, width and lastY are present and lastY > y, and
\* is undistanceable only otherwise; the measure returned has minimum
\* distance among the scored ones, or is the first scored one containing
\* the click.
C15_ScoredMeasures == pc = "done" => SystemResultFor(SystemScored)

\* the same on the lists whose measures have no lastY of 0
SystemScoredWithoutLastYZero ==
    (pc = "done" /\ \A k \in 1..Len(args.systems) : args.systems[k].lastY # Some(0))
        => SystemResultFor(SystemScored)

\* the distance of a note-event of the record to the click
EventTickDistance(item) == getDistance(args.pt, Val(Val(item).tickable.boundingBox))

\* C22: every record getScoreMouseEvent returns is hierarchically
\* consistent: measureIdx is present iff closestSystemMeasure is, and then
\* closestSystemMeasure = systems[measureIdx]; closestStave present implies
\* closestSystemMeasure present and closestStave = the stave of
\* parts[closestStaveIdx]; centerLineOffset is present iff closestStave is;
\* closestTickableBefore present implies closestTickable present and not
\* farther from the click; effectivePitch or accidentals present implies
\* closestTickableBefore present.
C22_RecordConsistent ==
    pc = "done" =>
        LET r == Val(result)
        IN  /\ IsSome(r.measureIdx) <=> IsSome(r.closestSystemMeasure)
            /\ IsSome(r.measureIdx) =>
                  /\ Val(r.measureIdx) \in 0..(Len(args.systems) - 1)
                  /\ Val(r.closestSystemMeasure) = At(args.systems, Val(r.measureIdx))
            /\ IsSome(r.closestStave) =>
                  /\ IsSome(r.closestSystemMeasure)
                  /\ IsSome(r.closestStaveIdx)
                  /\ Val(r.closestStaveIdx) \in
                        0..(Len(Val(r.closestSystemMeasure).parts) - 1)
                  /\ r.closestStave =
                        At(Val(r.closestSystemMeasure).parts, Val(r.closestStaveIdx)).stave
            /\ IsSome(r.centerLineOffset) <=> IsSome(r.closestStave)
            /\ IsSome(r.closestTickableBefore) =>
                  /\ IsSome(r.closestTickable)
                  /\ EventTickDistance(r.closestTickable)
                        <= EventTickDistance(r.closestTickableBefore)
            /\ (IsSome(r.effectivePitch) \/ IsSome(r.accidentals)) =>
                  IsSome(r.closestTickableBefore)

\* a record of the second of two measures and the second of two staves,
\* with a pitch and accidentals, whose closest note-event is nearer to the
\* click than the one before it
C22_Witness ==
    /\ pc = "done"
    /\ Val(result).measureIdx = Some(1)
    /\ Val(result).closestStaveIdx = Some(1)
    /\ IsSome(Val(result).effectivePitch)
    /\ IsSome(Val(result).accidentals)
    /\ EventTickDistance(Val(result).closestTickable)
          < EventTickDistance(Val(result).closestTickableBefore)

----------------------------------------------------------------------------
(* The specification of a sequence of getScoreMouseEvent calls on one      *)
(* score: what the calls leave of the score and of the tables, and what    *)
(* they return                                                             *)

MaxCalls == 3

\* thisTicks.divide(resolution, 1) on the note-event's own Fraction
tickDivideInPlace(thisTicks, resolution) ==
    [thisTicks |-> FractionDivide(thisTicks, resolution, 1),
     adjusted |-> FractionDivide(thisTicks, resolution, 1)]

\* adjusted = thisTicks.clone().divide(resolution, 1) in getTickablesAndBeats:
\* clone() makes a second Fraction of the same fields and divide writes into
\* that one; the note-event's own Fraction and adjusted after the statement
tickCloneAndDivide(thisTicks, resolution) ==
    LET clone == Fraction(thisTicks.numerator, thisTicks.denominator)
    IN  [thisTicks |-> thisTicks, adjusted |-> FractionDivide(clone, resolution, 1)]

\* a voice after getTickablesAndBeats has gone through it. The other writes
\* of the function go to items and totalTicks, both made in the call.
voiceAfterTickablesAndBeats(voice) ==
    [voice EXCEPT !.tickables =
        [k \in 1..Len(voice.tickables) |->
            [voice.tickables[k] EXCEPT
                !.ticks = tickCloneAndDivide(@, voice.resolution).thisTicks]]]

partAfterTickablesAndBeats(part) ==
    [part EXCEPT !.voices =
        [k \in 1..Len(part.voices) |-> voiceAfterTickablesAndBeats(part.voices[k])]]

\* the score after a call: getClosestTickableResult goes through the voices
\* of the closest staff, getAccidentals through those of every part of the
\* measure. The writes of getVoicesAccidentals go to objects made in the
\* call (accidentals, the note of parseNoteAndOctave, accidentalMap, the
\* array sort() is called on), compareFractions subtracts from a clone.
systemsAfterGetScoreMouseEvent(systems, hit, fetchAccidentals) ==
    IF ~(IsSome(hit.measureIdx) /\ IsSome(hit.closestStave) /\ IsSome(hit.closestStaveIdx))
    THEN systems
    ELSE LET measure == At(systems, Val(hit.measureIdx))
             visited ==
                 IF scoreMouseEventReachesPitch(hit) /\ fetchAccidentals
                 THEN 1..Len(measure.parts)
                 ELSE {k \in 1..Len(measure.parts) : k = Val(hit.closestStaveIdx) + 1}
         IN  [systems EXCEPT ![Val(hit.measureIdx) + 1] =
                 [measure EXCEPT !.parts =
                     [k \in 1..Len(measure.parts) |->
                         IF k \in visited
                         THEN partAfterTickablesAndBeats(measure.parts[k])
                         ELSE measure.parts[k]]]]

\* one staff each: centred at 80 in G major or at 120, without note-events or
\* with c#/5 at x = 25 and c/5 at x = 60; and the measure of the scenario
CallsMeasures ==
    {[options |-> [x |-> Some(20), y |-> Some(0), width |-> Some(150)],
      lastY |-> Some(140), parts |-> <<part>>] :
        part \in {p \in EventParts :
                     Val(p.stave).options.spacing_between_lines_px = Some(10)}}
    \cup {ScenarioMeasure}
CallsSystems ==
    {<<m>> : m \in CallsMeasures} \cup {<<ScenarioMeasure, m>> : m \in CallsMeasures}
CallsPoints == {[x |-> 27, y |-> 58], [x |-> 62, y |-> 110]}
CallsArguments(systems) ==
    [systems : {systems}, pt : CallsPoints, noteMap : EventNoteMaps,
     fetchAccidentals : BOOLEAN]

CallsInit ==
    /\ \E systems \in CallsSystems : args \in CallsArguments(systems)
    /\ result = None
    /\ pc = "getScoreMouseEvent"
    /\ iterable = <<>> /\ i = 0 /\ closest = None /\ distance = None
    /\ evaluated = {} /\ returned = FALSE
    /\ tables = ModuleTables /\ calls = <<>>

\* the call returns its record; the score is what the call left of it, and
\* no statement of the call assigns into NOTE_MAPPING or KEY_SIGNATURE_MAP
GetScoreMouseEventReturns ==
    /\ pc = "getScoreMouseEvent"
    /\ \E hit \in {scoreMouseEventHit(args.systems, args.pt)} :
          /\ ~getScoreMouseEventLoopsForever(hit)
          /\ \E pitch \in {scoreMouseEventPitch(args.systems, hit,
                                                noteMapOrDefault(args.noteMap),
                                                args.fetchAccidentals)},
                after \in {systemsAfterGetScoreMouseEvent(args.systems, hit,
                                                          args.fetchAccidentals)} :
                /\ result' = Some(getScoreMouseEvent(hit, pitch, args.pt))
                /\ args' = [args EXCEPT !.systems = after]
                /\ calls' = Append(calls, [args |-> args,
                                           result |-> getScoreMouseEvent(hit, pitch, args.pt),
                                           systems |-> after])
    /\ pc' = "done"
    /\ UNCHANGED <<gcVars, tables>>

\* the caller calls again on the same score
CallerCallsAgain ==
    /\ pc = "done"
    /\ Len(calls) < MaxCalls
    /\ args' \in CallsArguments(args.systems)
    /\ pc' = "getScoreMouseEvent"
    /\ UNCHANGED <<result, gcVars, heapVars>>

CallsNext == GetScoreMouseEventReturns \/ CallerCallsAgain

SpecCalls == CallsInit /\ [][CallsNext]_vars

\* C20: any sequence of getScoreMouseEvent calls leaves NOTE_MAPPING,
\* KEY_SIGNATURE_MAP and the supplied measures, staves, voices and
\* note-events unchanged, and two calls with the same score, click, note map
\* and flag return equal records whatever calls were made in between.
C20_CallsLeaveStateAndRepeat ==
    /\ tables = [NOTE_MAPPING |-> NOTE_MAPPING, KEY_SIGNATURE_MAP |-> KEY_SIGNATURE_MAP]
    /\ \A k \in 1..Len(calls) : calls[k].systems = calls[k].args.systems
    /\ \A j, k \in 1..Len(calls) :
          calls[j].args = calls[k].args => calls[j].result = calls[k].result

\* three calls, the first and the third with the same arguments and another
\* click in between, each finding a note-event and a pitch
C20_Witness ==
    /\ Len(calls) = 3
    /\ calls[1].args = calls[3].args
    /\ calls[2].args.pt # calls[1].args.pt
    /\ calls[2].args.fetchAccidentals # calls[1].args.fetchAccidentals
    /\ \A k \in 1..3 : IsSome(calls[k].result.effectivePitch)
    /\ calls[1].result.effectivePitch # calls[2].result.effectivePitch

----------------------------------------------------------------------------
(* The specification of parseNoteAndOctave on well-formed pitch keys, and  *)
(* of getVoicesAccidentals on a note of such a key                         *)

MaxOctave == 11

\* the decimal numeral of a non-negative integer
DigitOf(n) == CHOOSE c \in Digits : DigitValue(c) = n
RECURSIVE Numeral(_)
Numeral(n) == IF n < 10 THEN <<DigitOf(n)>> ELSE Numeral(n \div 10) \o <<DigitOf(n % 10)>>

\* <letter><accidental?>/<octave>
ParseLetters == NoteLetters \cup {"a", "b", "c", "d", "e", "f", "g"}
ParseAccidentals == {None} \cup {Some(a) : a \in Accidentals}
PitchKey(letter, accidental, octave) ==
    <<letter>> \o (IF IsSome(accidental) THEN AccidentalChars(Val(accidental)) ELSE <<>>)
               \o <<"/">> \o Numeral(octave)
ParseKeys ==
    {PitchKey(letter, accidental, octave) :
        letter \in ParseLetters, accidental \in ParseAccidentals, octave \in 0..MaxOctave}

ParseInit ==
    /\ \/ /\ args \in [noteWithOctave : ParseKeys]
          /\ pc = "parseNoteAndOctave"
       \/ /\ args \in [voices : {<<VoiceOf(<<StaveNote(<<key>>, QUARTER_TICKS, <<>>)>>)>> :
                                    key \in ParseKeys},
                       stopBeat : {Fraction(0, 1), Fraction(1, 4)}]
          /\ pc = "getVoicesAccidentals"
    /\ result = None
    /\ iterable = <<>> /\ i = 0 /\ closest = None /\ distance = None
    /\ evaluated = {} /\ returned = FALSE
    /\ tables = ModuleTables /\ calls = <<>>

CallParseNoteAndOctave ==
    /\ pc = "parseNoteAndOctave"
    /\ result' = parseNoteAndOctave(args.noteWithOctave)
    /\ pc' = "done"
    /\ UNCHANGED <<args, gcVars, heapVars>>

ParseNext == CallParseNoteAndOctave \/ CallGetVoicesAccidentals

SpecParse == ParseInit /\ [][ParseNext]_vars

\* the call under way or done, and the pitch key it is about
ParseIsParse == "noteWithOctave" \in DOMAIN args
ParseKey == IF ParseIsParse THEN args.noteWithOctave ELSE args.voices[1].tickables[1].keys[1]

\* what the claim has the two operations return on the key of the letter,
\* accidental and octave, from the octave lowest on
ParseAsClaimedFrom(lowest) ==
    pc = "done" =>
        \A letter \in ParseLetters, accidental \in ParseAccidentals, octave \in lowest..MaxOctave :
            ParseKey = PitchKey(letter, accidental, octave) =>
                IF ParseIsParse
                THEN result = Some([note |-> [accidental |-> accidental,
                                              noteLetter |-> toUpperCase(letter)],
                                    octave |-> octave])
                ELSE IsSome(accidental) =>
                        Lookup(Val(result), OverrideKey(toUpperCase(letter), octave))
                            = accidental

ParseAsClaimedFromOctaveOne == ParseAsClaimedFrom(1)

\* C21: parseNoteAndOctave returns the note and the octave for every string
\* <letter><accidental?>/<octave> with a letter A-G in either case, no
\* accidental or one of ##, #, b, bb, n, and a non-negative octave, 0
\* included; so every such key with an accidental at a beat <= the cutoff
\* yields an override entry in getVoicesAccidentals.
C21_WellFormedKeysParse == ParseAsClaimedFrom(0)

----------------------------------------------------------------------------
(* The specification of getAccidentals on malformed names: one call on     *)
(* each score with well-formed and malformed key names and pitch keys      *)

MaxLookupMeasures == 2
MaxLookupNotes == 2

\* the key names G, H (no such letter), Am (no such accidental) and a key
\* signature without a name
LookupKeySpecs == {<<"G">>, <<"H">>, <<"A", "m">>, UndefinedString}
LookupBadKeySpecs == LookupKeySpecs \ {<<"G">>}
LookupStaves ==
    {Some(StaveAt(40, Some(10), <<ClefModifier>>))}
    \cup {Some(StaveAt(40, Some(10), <<ClefModifier, KeySignatureModifier(keySpec)>>)) :
             keySpec \in LookupKeySpecs}

\* the pitch keys c#/5, and h#/5 (no such letter), c+/5 (no such accidental)
\* and c#5 (no separator)
LookupKeys ==
    {<<"c", "#", "/", "5">>, <<"h", "#", "/", "5">>, <<"c", "+", "/", "5">>,
     <<"c", "#", "5">>}
LookupBadKeys == LookupKeys \ {<<"c", "#", "/", "5">>}
LookupNotes == {StaveNote(<<key>>, QUARTER_TICKS, <<>>) : key \in LookupKeys}

LookupMeasures ==
    {[options |-> [x |-> Some(20), y |-> Some(0), width |-> Some(150)],
      lastY |-> Some(100),
      parts |-> <<[stave |-> stave, voices |-> <<VoiceOf(notes)>>]>>] :
        stave \in LookupStaves, notes \in SeqsUpTo(LookupNotes, MaxLookupNotes)}

LookupInit ==
    /\ args \in [systems : SeqsUpTo(LookupMeasures, MaxLookupMeasures),
                 staveIdx : {0},
                 measureIdx : 0..(MaxLookupMeasures - 1),
                 measureBeat : {Fraction(1, 1)}]
    /\ result = None
    /\ pc = "getAccidentals"
    /\ iterable = <<>> /\ i = 0 /\ closest = None /\ distance = None
    /\ evaluated = {} /\ returned = FALSE
    /\ tables = ModuleTables /\ calls = <<>>

\* the call ends with the TypeError of getKeySigAccidentals
GetAccidentalsThrows ==
    /\ pc = "getAccidentals"
    /\ getAccidentalsThrows(args.systems, args.staveIdx, args.measureIdx)
    /\ pc' = "threw"
    /\ UNCHANGED <<args, result, gcVars, heapVars>>

LookupNext == CallGetAccidentals \/ GetAccidentalsThrows

SpecLookup == LookupInit /\ [][LookupNext]_vars

\* the key signature in effect: that of the nearest measure at or before
\* the target whose staff has one; none when there is none
LookupMeasuresWithKeySig ==
    {m \in 0..args.measureIdx :
        \E k \in 1..Len(Val(At(args.systems, m).parts[1].stave).modifiers) :
            Val(At(args.systems, m).parts[1].stave).modifiers[k].category
                = KEYSIGNATURE_CATEGORY}
LookupKeySpec ==
    LET m == CHOOSE n \in LookupMeasuresWithKeySig :
                 \A j \in LookupMeasuresWithKeySig : j <= n
    IN  Val(At(args.systems, m).parts[1].stave).modifiers[2].keySpec

\* the voice of the target measure without the notes of a malformed key
LookupWellFormedVoice ==
    LET tickables == At(args.systems, args.measureIdx).parts[1].voices[1].tickables
    IN  VoiceOf(FilterAt(tickables,
                         {k \in 1..Len(tickables) : tickables[k].keys[1] \notin LookupBadKeys},
                         1))

LookupInRange == Len(args.systems) > args.measureIdx

LookupOnlyThatLookupYieldsNone ==
    (pc = "done" /\ LookupInRange) =>
        /\ (LookupMeasuresWithKeySig # {} /\ LookupKeySpec \in LookupBadKeySpecs)
              => Val(result).keySig = EmptyObject
        /\ (LookupMeasuresWithKeySig # {} /\ LookupKeySpec = <<"G">>)
              => Val(result).keySig = KEY_SIGNATURE_MAP[<<"G">>]
        /\ Val(result).accidentalOverrides =
              IF Len(LookupWellFormedVoice.tickables) > 0
              THEN [key \in {OverrideKey("C", 5)} |-> "#"]
              ELSE EmptyObject

\* C19: a malformed key-signature name or pitch key (unparseable letter or
\* accidental, or a key name that is missing) makes only that lookup yield
\* none: getAccidentals returns a value, with an empty keySig for a bad key
\* name and no override for a bad pitch key while the other keys of the
\* measure are processed; the query is never aborted.
C19_MalformedLookupYieldsNone ==
    /\ pc # "threw"
    /\ LookupOnlyThatLookupYieldsNone

----------------------------------------------------------------------------
(* The specification of getNoteAndOctave: one call on each argument tuple *)

MaxOffset == 16
PitchClefs == {"treble", "bass", "alto", "french"}
PitchOctaveShifts == {None, Some(-1), Some(1)}
\* the table of getNoteMap, and a caller's table without the letter B
PitchNoteMaps == {NOTE_MAPPING, [k \in 0..5 |-> NOTE_MAPPING[k]]}
PitchOverrideKeys == {OverrideKey("C", 5), OverrideKey("C", 4)}
PitchOverrideAccidentals == {"n", "#", "bb"}
PitchOverrides ==
    UNION {[ks -> PitchOverrideAccidentals] : ks \in SUBSET PitchOverrideKeys}
PitchKeySigs ==
    {EmptyObject} \cup {KEY_SIGNATURE_MAP[k] : k \in {<<"D">>, <<"B", "b">>, <<"C", "b">>}}
PitchAccidentals ==
    {None} \cup {Some(e) : e \in [keySig : PitchKeySigs,
                                  accidentalOverrides : PitchOverrides]}

PitchInit ==
    /\ args \in [noteMap : PitchNoteMaps,
                 clef : PitchClefs,
                 centerLineOffset : {Finite(n) : n \in -MaxOffset..MaxOffset},
                 octaveShift : PitchOctaveShifts,
                 effectiveAccidentals : PitchAccidentals]
    /\ result = None
    /\ pc = "getNoteAndOctave"
    /\ iterable = <<>> /\ i = 0 /\ closest = None /\ distance = None
    /\ evaluated = {} /\ returned = FALSE
    /\ tables = ModuleTables /\ calls = <<>>

CallGetNoteAndOctave ==
    /\ pc = "getNoteAndOctave"
    /\ ~getNoteAndOctaveLoopsForever(args.centerLineOffset)
    /\ result' = getNoteAndOctave(args.noteMap, args.clef, args.centerLineOffset,
                                  args.octaveShift, args.effectiveAccidentals)
    /\ pc' = "done"
    /\ UNCHANGED <<args, gcVars, heapVars>>

PitchNext == CallGetNoteAndOctave

SpecPitch == PitchInit /\ [][PitchNext]_vars

\* raw = offset - 2*clefLineShift - 1 and the octave baseline of the call
PitchRaw == args.centerLineOffset.v - 2 * clefLineShift(args.clef) - 1
PitchBaseOctave == 5 - (IF IsSome(args.octaveShift) THEN Val(args.octaveShift) ELSE 0)
\* the letter index the raw offset denotes, whatever the octave
PitchLetterIdx == PitchRaw % 7

\* C7: with accidentals supplied the resolved pitch carries the override of
\* its (letter, octave) when there is one (a natural included, an override of
\* the letter in another octave ignored), else the key signature's accidental
\* for the letter, else natural; with no accidentals supplied it is natural.
C7_AccidentalPrecedence ==
    (pc = "done" /\ IsSome(result)) =>
        LET pitch == Val(result)
            letter == pitch.note.noteName.noteLetter
            key == OverrideKey(letter, pitch.octave)
            expected ==
                IF ~IsSome(args.effectiveAccidentals) THEN "n"
                ELSE LET ea == Val(args.effectiveAccidentals)
                     IN  IF key \in DOMAIN ea.accidentalOverrides
                         THEN ea.accidentalOverrides[key]
                         ELSE IF letter \in DOMAIN ea.keySig THEN ea.keySig[letter]
                         ELSE "n"
        IN  /\ pitch.note.noteName.accidental = expected
            /\ pitch.note.semitoneVal =
                  (At(NaturalSemitone, pitch.note.noteLetterIdx)
                   + (CASE expected = "bb" -> -2 [] expected = "b" -> -1
                        [] expected = "n" -> 0 [] expected = "#" -> 1
                        [] expected = "##" -> 2) + 12) % 12

\* C5 resolved on the treble clef under a key signature that sharpens C, with
\* an override of natural for C5 and an override of sharp for C4: natural
C7_Witness ==
    /\ pc = "done"
    /\ IsSome(result)
    /\ IsSome(args.effectiveAccidentals)
    /\ Val(result).note.noteName.noteLetter = "C"
    /\ Val(result).octave = 5
    /\ Lookup(Val(args.effectiveAccidentals).keySig, "C") = Some("#")
    /\ Lookup(Val(args.effectiveAccidentals).accidentalOverrides,
              OverrideKey("C", 5)) = Some("n")
    /\ Lookup(Val(args.effectiveAccidentals).accidentalOverrides,
              OverrideKey("C", 4)) = Some("#")
    /\ Val(result).note.noteName.accidental = "n"

\* C8: the raw offset is normalised to a letter index in 0..6 and an octave
\* with letterIndex + 7*octave = raw + 7*(5 - octaveShift); raw = -1 with no
\* clef shift and no octave shift is letter index 6 (B) in octave 4.
C8_OffsetNormalised ==
    pc = "done" =>
        /\ PitchLetterIdx \in DOMAIN args.noteMap <=> IsSome(result)
        /\ IsSome(result) =>
              /\ Val(result).note.noteLetterIdx \in 0..6
              /\ Val(result).note.noteLetterIdx + 7 * Val(result).octave
                    = PitchRaw + 7 * PitchBaseOctave
              /\ Val(result).note.noteName.noteLetter
                    = At(NoteLetterAt, Val(result).note.noteLetterIdx)
        /\ (PitchRaw = -1 /\ args.clef = "treble" /\ ~IsSome(args.octaveShift)
            /\ args.noteMap = NOTE_MAPPING) =>
              /\ IsSome(result)
              /\ Val(result).note.noteLetterIdx = 6
              /\ Val(result).note.noteName.noteLetter = "B"
              /\ Val(result).octave = 4

\* the wraparound: raw = -1 on the treble clef resolved to B4
C8_Witness ==
    /\ pc = "done"
    /\ PitchRaw = -1
    /\ args.clef = "treble"
    /\ ~IsSome(args.octaveShift)
    /\ IsSome(result)
    /\ Val(result).note.noteLetterIdx = 6
    /\ Val(result).octave = 4

----------------------------------------------------------------------------
(* The specification of getClosest, one iteration per step.  A candidate   *)
(* is a record carrying the distance closestFunct assigns it.              *)

MaxCandidates == 3
CandidateNames == {"a", "b"}
CandidateDistances == {None, Some(-1), Some(0), Some(1), Some(2)}
Candidates == [name : CandidateNames, d : CandidateDistances]

closestFunct(item) == item.d

ClosestInit ==
    /\ iterable \in SeqsUpTo(Candidates, MaxCandidates)
    /\ i = 0
    /\ closest = None
    /\ distance = None
    /\ evaluated = {}
    /\ returned = FALSE
    /\ args = None
    /\ result = None
    /\ pc = "getClosest"
    /\ tables = ModuleTables
    /\ calls = <<>>

\* an iteration of the for loop: closestFunct is evaluated on iterable[i]
GetClosestIteration ==
    /\ pc = "getClosest"
    /\ i < Len(iterable)
    /\ LET st == getClosestIter([closest |-> closest, distance |-> distance,
                                 returned |-> FALSE],
                                i, At(iterable, i), closestFunct(At(iterable, i)))
       IN  /\ closest' = st.closest
           /\ distance' = st.distance
           /\ returned' = st.returned
           /\ pc' = IF st.returned THEN "done" ELSE "getClosest"
    /\ evaluated' = evaluated \cup {i}
    /\ i' = i + 1
    /\ UNCHANGED <<iterable, callVars, heapVars>>

\* the loop ends at the end of the list: return closest
GetClosestExit ==
    /\ pc = "getClosest"
    /\ i >= Len(iterable)
    /\ pc' = "done"
    /\ UNCHANGED <<gcVars, callVars, heapVars>>

ClosestNext == GetClosestIteration \/ GetClosestExit

SpecClosest == ClosestInit /\ [][ClosestNext]_vars

\* the candidates closestFunct scores, and those it scores <= 0
Scored == {k \in 0..(Len(iterable) - 1) : IsSome(closestFunct(At(iterable, k)))}
NonPositive == {k \in Scored : Val(closestFunct(At(iterable, k))) <= 0}
DistanceOf(k) == Val(closestFunct(At(iterable, k)))
\* the lowest index among the scored candidates of minimum distance
FirstMinimum ==
    CHOOSE m \in Scored :
        \A k \in Scored : DistanceOf(m) < DistanceOf(k)
                           \/ (DistanceOf(m) = DistanceOf(k) /\ m <= k)
FirstNonPositive == CHOOSE m \in NonPositive : \A k \in NonPositive : m <= k

\* C9: getClosest returns none for an empty list and for a list no candidate
\* of which is scored; with scored candidates, all at a distance > 0, it
\* returns the scored candidate of minimum distance, the lowest index among
\* equal minima, with its index idx and item = iterable[idx].
C9_ClosestIsFirstMinimum ==
    pc = "done" =>
        /\ Scored = {} => closest = None
        /\ (Scored # {} /\ NonPositive = {}) =>
               closest = Some([idx |-> FirstMinimum,
                               item |-> At(iterable, FirstMinimum)])

\* a finished search over three candidates, the minimum shared by the last
\* two, which differ
C9_Witness ==
    /\ pc = "done"
    /\ Len(iterable) = 3
    /\ NonPositive = {}
    /\ Scored = {0, 1, 2}
    /\ DistanceOf(0) = 2 /\ DistanceOf(1) = 1 /\ DistanceOf(2) = 1
    /\ At(iterable, 1) # At(iterable, 2)
    /\ closest = Some([idx |-> 1, item |-> At(iterable, 1)])

\* C10: when some candidate has a distance <= 0, closestFunct is at no time
\* evaluated on a candidate after the first such one, and getClosest returns
\* that candidate with its index.
C10_EarlyReturn ==
    NonPositive # {} =>
        /\ evaluated \subseteq 0..FirstNonPositive
        /\ pc = "done" =>
              /\ closest = Some([idx |-> FirstNonPositive,
                                 item |-> At(iterable, FirstNonPositive)])
              /\ evaluated = 0..FirstNonPositive

\* a finished search that returned the second candidate, at distance 0, after
\* a first one at a positive distance and before a third one at distance 0
C10_Witness ==
    /\ pc = "done"
    /\ Len(iterable) = 3
    /\ Scored = {0, 1, 2}
    /\ DistanceOf(0) = 1 /\ DistanceOf(1) = 0 /\ DistanceOf(2) = 0
    /\ returned
    /\ closest = Some([idx |-> 1, item |-> At(iterable, 1)])
    /\ evaluated = {0, 1}

====
